---------------------------- MODULE Spec2Model ----------------------------
(***************************************************************************)
(* A model of moar-news: the refresh coordinator (src/src/fetcher.rs) and  *)
(* the SQLite store (src/src/db.rs).                                       *)
(*                                                                         *)
(* Strings are sequences of tokens; a token stands for a run of            *)
(* characters that the code never looks inside ("news.ycombinator.com",    *)
(* "<item>", " ").  Option<T> is a sequence of length at most one: None is *)
(* <<>> and Some(x) is <<x>>.                                              *)
(***************************************************************************)
EXTENDS Integers, Sequences, FiniteSets, TLC

\* ------------------------------------------------------------------ bounds

\* The number of on-demand refresh tasks (routes::refresh spawns) beside the
\* background scheduler.
MaxTriggers == 1

\* The largest limit and offset asked of get_items_for_feed.
MaxLimit == 3

\* The number of clients that call upsert_item concurrently.
MaxClients == 2

\* The wall clock runs from 0 to MaxTime.
MaxTime == 1

\* The most <item> blocks in a document given to the comments extractor.
MaxItems == 3

\* The most upsert_item calls that built a table whose pages are read.
MaxRows == 3

\* ----------------------------------------------------------------- options

None == <<>>

Some(x) == <<x>>

IsSome(o) == o # <<>>

Unwrap(o) == o[1]

\* ----------------------------------------------------------------- strings

\* str::contains / str::find on token sequences: Find is the 1-based position
\* of the first occurrence of pat in s, 0 when there is none.
Occurs(s, pat, i) == i + Len(pat) - 1 <= Len(s) /\ SubSeq(s, i, i + Len(pat) - 1) = pat

Find(s, pat) ==
    IF \E i \in 1..(Len(s) + 1) : Occurs(s, pat, i)
    THEN CHOOSE i \in 1..(Len(s) + 1) :
            Occurs(s, pat, i) /\ \A j \in 1..(i - 1) : ~Occurs(s, pat, j)
    ELSE 0

Contains(s, pat) == Find(s, pat) # 0

Whitespace == {" ", "\n"}

RECURSIVE TrimStart(_)
TrimStart(s) ==
    IF s # <<>> /\ Head(s) \in Whitespace THEN TrimStart(Tail(s)) ELSE s

RECURSIVE TrimEnd(_)
TrimEnd(s) ==
    IF s # <<>> /\ s[Len(s)] \in Whitespace
    THEN TrimEnd(SubSeq(s, 1, Len(s) - 1))
    ELSE s

\* str::trim
Trim(s) == TrimEnd(TrimStart(s))

\* str::split(delim) for a one-token delimiter: the pieces between occurrences.
RECURSIVE Split(_, _)
Split(s, delim) ==
    LET p == Find(s, <<delim>>)
    IN  IF p = 0
        THEN <<s>>
        ELSE <<SubSeq(s, 1, p - 1)>> \o Split(SubSeq(s, p + 1, Len(s)), delim)

\* chrono's to_rfc3339 of a UTC time: fixed width, zero padded, "+00:00" last.
Digits == <<"0", "1", "2", "3", "4", "5", "6", "7", "8", "9">>

to_rfc3339(t) == <<Digits[(t \div 10) + 1], Digits[(t % 10) + 1], "+00:00">>

\* str::to_lowercase on the relation tags that occur.
to_lowercase(s) ==
    CASE s = "REPLIES" -> "replies"
      [] s = "Replies" -> "replies"
      [] s = "COMMENTS" -> "comments"
      [] s = "Comments" -> "comments"
      [] OTHER -> s


\* ------------------------------------------------- raw-XML comments extractor

\* A faulty extract_xml_element that leaves the surrounding whitespace in place.
ExtractUntrimmed(xml, tag) ==
    LET start_tag == "<" \o tag \o ">"
        end_tag == "</" \o tag \o ">"
        s == Find(xml, <<start_tag>>)
    IN  IF s = 0
        THEN None
        ELSE LET rest == SubSeq(xml, s + 1, Len(xml))
                 e == Find(rest, <<end_tag>>)
             IN  IF e = 0 THEN None ELSE Some(SubSeq(rest, 1, e - 1))

\* Fetcher::extract_xml_element: the trimmed text between the first <tag> and
\* the first </tag> after it; None when either is missing.
extract_xml_element(xml, tag) ==
    LET start_tag == "<" \o tag \o ">"
        end_tag == "</" \o tag \o ">"
        s == Find(xml, <<start_tag>>)
    IN  IF s = 0
        THEN None
        ELSE LET start == s + 1
                 rest == SubSeq(xml, start, Len(xml))
                 e == Find(rest, <<end_tag>>)
             IN  IF e = 0 THEN None ELSE Some(Trim(SubSeq(rest, 1, e - 1)))

\* HashMap::insert: a later value for the same key replaces the earlier one.
MapInsert(m, k, v) == [x \in (DOMAIN m) \cup {k} |-> IF x = k THEN v ELSE m[x]]

\* HashMap::get
MapGet(m, k) == IF k \in DOMAIN m THEN Some(m[k]) ELSE None

EmptyMap == [x \in {} |-> <<>>]

\* A faulty loop that reads every block up to the next <item> or the end of
\* the text, past the block's </item>.
RECURSIVE ScanWholeBlocks(_, _)
ScanWholeBlocks(blocks, comments_map) ==
    IF blocks = <<>>
    THEN comments_map
    ELSE LET item == Head(blocks)
             link == extract_xml_element(item, "link")
             comments == extract_xml_element(item, "comments")
         IN  ScanWholeBlocks(
                 Tail(blocks),
                 IF IsSome(link) /\ IsSome(comments)
                 THEN MapInsert(comments_map, Unwrap(link), Unwrap(comments))
                 ELSE comments_map)

\* One pass of the loop of extract_comments_from_xml over the item blocks.
RECURSIVE ScanItemBlocks(_, _)
ScanItemBlocks(blocks, comments_map) ==
    IF blocks = <<>>
    THEN comments_map
    ELSE LET item_block == Head(blocks)
             f == Find(item_block, <<"</item>">>)
             item_end == IF f = 0 THEN Len(item_block) ELSE f - 1
             item == SubSeq(item_block, 1, item_end)
             link == extract_xml_element(item, "link")
             comments == extract_xml_element(item, "comments")
         IN  ScanItemBlocks(
                 Tail(blocks),
                 IF IsSome(link) /\ IsSome(comments)
                 THEN MapInsert(comments_map, Unwrap(link), Unwrap(comments))
                 ELSE comments_map)

\* A faulty extractor that reads the bytes as text whether they are UTF-8 or
\* not (String::from_utf8_lossy).
ExtractLossy(xml_bytes) == ScanItemBlocks(Tail(Split(xml_bytes.text, "<item>")), EmptyMap)

\* Fetcher::extract_comments_from_xml. The bytes are [utf8, text]: utf8 says
\* whether std::str::from_utf8 accepts them, text is their text when it does.
extract_comments_from_xml(xml_bytes) ==
    IF ~xml_bytes.utf8
    THEN EmptyMap
    ELSE ScanItemBlocks(Tail(Split(xml_bytes.text, "<item>")), EmptyMap)

\* ------------------------------------------------- discussion-link resolver

HN == "news.ycombinator.com"

HN_ITEM == <<"news.ycombinator.com", "/item?id=">>

LOBSTERS == "lobste.rs"

LOBSTERS_STORY == <<"lobste.rs", "/s/">>

\* A faulty loop that compares the relation tag as it is written, without
\* lower-casing it.
RECURSIVE FirstCommentsLinkCaseSensitive(_)
FirstCommentsLinkCaseSensitive(links) ==
    IF links = <<>>
    THEN None
    ELSE LET link == Head(links)
             rel == IF IsSome(link.rel) THEN Unwrap(link.rel) ELSE ""
         IN  IF rel = "replies" \/ rel = "comments"
             THEN Some(link.href)
             ELSE FirstCommentsLinkCaseSensitive(Tail(links))

\* The loop over entry.links of extract_discussion_link: the href of the first
\* link whose lower-cased rel is "replies" or "comments".
RECURSIVE FirstCommentsLink(_)
FirstCommentsLink(links) ==
    IF links = <<>>
    THEN None
    ELSE LET link == Head(links)
             rel == to_lowercase(IF IsSome(link.rel) THEN Unwrap(link.rel) ELSE "")
         IN  IF rel = "replies" \/ rel = "comments"
             THEN Some(link.href)
             ELSE FirstCommentsLink(Tail(links))

\* A faulty resolver without the has_discussion check.
ResolveIgnoringFlag(feed, entry, comments_from_xml, main_link) ==
    IF Contains(feed.url, <<HN>>) /\ Contains(main_link, HN_ITEM) THEN None
    ELSE IF Contains(feed.url, <<HN>>) /\ Contains(entry.id, HN_ITEM) THEN Some(entry.id)
    ELSE IF Contains(feed.url, <<LOBSTERS>>) /\ Contains(entry.id, LOBSTERS_STORY)
         THEN Some(entry.id)
    ELSE IF IsSome(comments_from_xml) THEN Some(Unwrap(comments_from_xml))
    ELSE FirstCommentsLink(entry.links)

\* Fetcher::extract_discussion_link
extract_discussion_link(feed, entry, comments_from_xml, main_link) ==
    IF ~feed.has_discussion THEN None
    ELSE IF Contains(feed.url, <<HN>>) /\ Contains(main_link, HN_ITEM) THEN None
    ELSE IF Contains(feed.url, <<HN>>) /\ Contains(entry.id, HN_ITEM) THEN Some(entry.id)
    ELSE IF Contains(feed.url, <<LOBSTERS>>) /\ Contains(entry.id, LOBSTERS_STORY)
         THEN Some(entry.id)
    ELSE IF IsSome(comments_from_xml) THEN Some(Unwrap(comments_from_xml))
    ELSE FirstCommentsLink(entry.links)

\* -------------------------------------------------------------------- store

\* The rowid SQLite gives a row inserted into an INTEGER PRIMARY KEY table:
\* one more than the largest rowid in use.
NextRowId(rows) ==
    IF rows = {} THEN 1 ELSE 1 + (CHOOSE m \in {r.id : r \in rows} : \A r \in rows : r.id <= m)

\* A faulty statement without ON CONFLICT, on a table without UNIQUE(url): a
\* plain INSERT for every config.
SyncOneAlwaysInserts(feedRows, config) ==
    feedRows \cup {[id |-> NextRowId(feedRows), name |-> config.name, url |-> config.url,
                     has_discussion |-> config.has_discussion, last_fetched |-> None,
                     last_error |-> None, homepage_url |-> None]}

\* A faulty statement whose DO UPDATE also overwrites the fetch status with the
\* values of the row it tried to insert.
SyncOneClearsStatus(feedRows, config) ==
    IF \E r \in feedRows : r.url = config.url
    THEN {IF r.url = config.url
          THEN [r EXCEPT !.name = config.name, !.has_discussion = config.has_discussion,
                         !.last_fetched = None, !.last_error = None, !.homepage_url = None]
          ELSE r : r \in feedRows}
    ELSE feedRows \cup {[id |-> NextRowId(feedRows), name |-> config.name, url |-> config.url,
                         has_discussion |-> config.has_discussion, last_fetched |-> None,
                         last_error |-> None, homepage_url |-> None]}

\* One statement of the loop of Database::sync_feeds: INSERT ... ON CONFLICT(url)
\* DO UPDATE SET name, has_discussion.
SyncOne(feedRows, config) ==
    IF \E r \in feedRows : r.url = config.url
    THEN {IF r.url = config.url
          THEN [r EXCEPT !.name = config.name, !.has_discussion = config.has_discussion]
          ELSE r : r \in feedRows}
    ELSE feedRows \cup {[id |-> NextRowId(feedRows), name |-> config.name, url |-> config.url,
                         has_discussion |-> config.has_discussion, last_fetched |-> None,
                         last_error |-> None, homepage_url |-> None]}

\* The loop of Database::sync_feeds over the configs.
RECURSIVE SyncAll(_, _)
SyncAll(feedRows, configs) ==
    IF configs = <<>>
    THEN feedRows
    ELSE SyncAll(SyncOne(feedRows, Head(configs)), Tail(configs))

\* A faulty sync that also deletes the feeds whose URL no config lists.
SyncFeedsPrunes(feedRows, configs) ==
    {r \in SyncAll(feedRows, configs) : \E k \in 1..Len(configs) : configs[k].url = r.url}

\* Database::sync_feeds
sync_feeds(feedRows, configs) == SyncAll(feedRows, configs)

\* SELECT ... ORDER BY id: the rows as a sequence of ascending id.
RECURSIVE OrderById(_)
OrderById(rows) ==
    IF rows = {}
    THEN <<>>
    ELSE LET first == CHOOSE r \in rows : \A q \in rows : r.id <= q.id
         IN  <<first>> \o OrderById(rows \ {first})

\* Database::get_all_feeds
get_all_feeds(feedRows) == OrderById(feedRows)

\* The INSERT branch of upsert_item's statement.
InsertItem(itemRows, feed_id, guid, title, link, discussion_link, published_str) ==
    itemRows \cup {[id |-> NextRowId(itemRows), feed_id |-> feed_id, guid |-> guid,
                    title |-> title, link |-> link, discussion_link |-> discussion_link,
                    published |-> published_str]}

\* A faulty UPDATE that matches rows by guid alone, in whatever feed.
UpdateItemAnyFeed(itemRows, feed_id, guid, title, link, discussion_link, published_str) ==
    {IF r.guid = guid
     THEN [r EXCEPT !.title = title, !.link = link,
                    !.discussion_link = discussion_link, !.published = published_str]
     ELSE r : r \in itemRows}

\* A faulty UPDATE that gives the row a fresh rowid each time, as a DELETE
\* followed by an INSERT into an AUTOINCREMENT table would.
UpdateItemReinserts(itemRows, feed_id, guid, title, link, discussion_link, published_str) ==
    {IF r.feed_id = feed_id /\ r.guid = guid
     THEN [r EXCEPT !.id = NextRowId(itemRows), !.title = title, !.link = link,
                    !.discussion_link = discussion_link, !.published = published_str]
     ELSE r : r \in itemRows}

\* A faulty UPDATE that keeps a stored discussion link and published time when
\* the new value is NULL (COALESCE(excluded.x, x)).
UpdateItemKeepsOptionals(itemRows, feed_id, guid, title, link, discussion_link, published_str) ==
    {IF r.feed_id = feed_id /\ r.guid = guid
     THEN [r EXCEPT !.title = title, !.link = link,
                    !.discussion_link = IF IsSome(discussion_link) THEN discussion_link ELSE @,
                    !.published = IF IsSome(published_str) THEN published_str ELSE @]
     ELSE r : r \in itemRows}

\* The ON CONFLICT(feed_id, guid) DO UPDATE branch of upsert_item's statement.
UpdateItem(itemRows, feed_id, guid, title, link, discussion_link, published_str) ==
    {IF r.feed_id = feed_id /\ r.guid = guid
     THEN [r EXCEPT !.title = title, !.link = link,
                    !.discussion_link = discussion_link, !.published = published_str]
     ELSE r : r \in itemRows}

\* A faulty upsert with no ON CONFLICT clause and no UNIQUE constraint: a plain
\* INSERT every time.
UpsertAlwaysInserts(itemRows, feed_id, guid, title, link, discussion_link, published) ==
    InsertItem(itemRows, feed_id, guid, title, link, discussion_link,
               IF IsSome(published) THEN Some(to_rfc3339(Unwrap(published))) ELSE None)

\* Database::upsert_item; published is an Option<DateTime<Utc>>.
upsert_item(itemRows, feed_id, guid, title, link, discussion_link, published) ==
    LET published_str == IF IsSome(published) THEN Some(to_rfc3339(Unwrap(published))) ELSE None
    IN  IF \E r \in itemRows : r.feed_id = feed_id /\ r.guid = guid
        THEN UpdateItem(itemRows, feed_id, guid, title, link, discussion_link, published_str)
        ELSE InsertItem(itemRows, feed_id, guid, title, link, discussion_link, published_str)

\* A faulty update that treats last_error like homepage_url: COALESCE(?,
\* last_error), so that an error once recorded stays.
UpdateKeepsError(feedRows, t, feed_id, error, homepage_url) ==
    {IF r.id = feed_id
     THEN [r EXCEPT !.last_fetched = Some(to_rfc3339(t)),
                    !.last_error = IF IsSome(error) THEN error ELSE @,
                    !.homepage_url = IF IsSome(homepage_url) THEN homepage_url ELSE @]
     ELSE r : r \in feedRows}

\* A faulty update that stamps last_fetched on success only.
UpdateStampsSuccessOnly(feedRows, t, feed_id, error, homepage_url) ==
    {IF r.id = feed_id
     THEN [r EXCEPT !.last_fetched = IF IsSome(error) THEN @ ELSE Some(to_rfc3339(t)),
                    !.last_error = error,
                    !.homepage_url = IF IsSome(homepage_url) THEN homepage_url ELSE @]
     ELSE r : r \in feedRows}

\* Database::update_feed_fetched at clock time t; COALESCE(?, homepage_url)
\* keeps the stored homepage when the argument is NULL.
update_feed_fetched(feedRows, t, feed_id, error, homepage_url) ==
    {IF r.id = feed_id
     THEN [r EXCEPT !.last_fetched = Some(to_rfc3339(t)),
                    !.last_error = error,
                    !.homepage_url = IF IsSome(homepage_url) THEN homepage_url ELSE @]
     ELSE r : r \in feedRows}

\* The rank of a character in a comparison of TEXT values (SQLite's BINARY
\* collation compares bytes): '+' sorts before every digit.
CharRank(ch) ==
    IF \E k \in 1..10 : Digits[k] = ch
    THEN CHOOSE k \in 1..10 : Digits[k] = ch
    ELSE 0

\* a < b for two TEXT values: the first differing character decides, and a
\* proper prefix sorts first.
RECURSIVE TextLess(_, _)
TextLess(a, b) ==
    IF b = <<>> THEN FALSE
    ELSE IF a = <<>> THEN TRUE
    ELSE IF Head(a) # Head(b) THEN CharRank(Head(a)) < CharRank(Head(b))
    ELSE TextLess(Tail(a), Tail(b))

\* A faulty ordering without NULLS LAST on a column that sorts NULL as the
\* largest value: a row without published comes first.
ItemBeforeNullsFirst(r, q) ==
    IF IsSome(r.published) # IsSome(q.published) THEN ~IsSome(r.published)
    ELSE IF IsSome(r.published) /\ r.published # q.published
         THEN TextLess(Unwrap(q.published), Unwrap(r.published))
    ELSE r.id > q.id

\* ORDER BY published DESC NULLS LAST, id DESC: row r is returned before row q.
ItemBefore(r, q) ==
    IF IsSome(r.published) # IsSome(q.published) THEN IsSome(r.published)
    ELSE IF IsSome(r.published) /\ r.published # q.published
         THEN TextLess(Unwrap(q.published), Unwrap(r.published))
    ELSE r.id > q.id

\* The rows of a SELECT in the order of its ORDER BY clause.
RECURSIVE OrderItems(_)
OrderItems(rows) ==
    IF rows = {}
    THEN <<>>
    ELSE LET first == CHOOSE r \in rows : \A q \in rows \ {r} : ItemBefore(r, q)
         IN  <<first>> \o OrderItems(rows \ {first})

\* A faulty LIMIT ? OFFSET ? that counts the limit from the first row, not
\* from the offset (the rows offset+1 .. limit).
LimitFromStart(rows, limit, offset) ==
    LET off == IF offset < 0 THEN 0 ELSE offset
        last == IF limit < 0 \/ limit > Len(rows) THEN Len(rows) ELSE limit
    IN  SubSeq(rows, off + 1, last)

\* A faulty OFFSET that starts at the row numbered offset instead of after it.
LimitOffsetOverlapping(rows, limit, offset) ==
    LET off == IF offset < 1 THEN 1 ELSE offset
        rest == SubSeq(rows, off, Len(rows))
    IN  IF limit < 0 \/ limit > Len(rest) THEN rest ELSE SubSeq(rest, 1, limit)

\* LIMIT ? OFFSET ? as SQLite applies them: a negative offset counts as 0 and a
\* negative limit as no limit.
LimitOffset(rows, limit, offset) ==
    LET off == IF offset < 0 THEN 0 ELSE offset
        rest == SubSeq(rows, off + 1, Len(rows))
    IN  IF limit < 0 \/ limit > Len(rest) THEN rest ELSE SubSeq(rest, 1, limit)

\* A faulty query without its WHERE feed_id = ? clause.
GetItemsOfAnyFeed(itemRows, feed_id, limit, offset) ==
    LimitOffset(OrderItems(itemRows), limit, offset)

\* Database::get_items_for_feed
get_items_for_feed(itemRows, feed_id, limit, offset) ==
    LimitOffset(OrderItems({r \in itemRows : r.feed_id = feed_id}), limit, offset)

\* A faulty count without its WHERE feed_id = ? clause.
CountItemsOfAnyFeed(itemRows, feed_id) == Cardinality(itemRows)

\* Database::get_item_count_for_feed
get_item_count_for_feed(itemRows, feed_id) ==
    Cardinality({r \in itemRows : r.feed_id = feed_id})

\* ------------------------------------------------------------- sample data

\* The configured feeds (feeds.toml): a known discussion platform and a blog.
FeedConfigs ==
    << [name |-> "Hacker News", url |-> <<HN, "/rss">>, has_discussion |-> TRUE],
       [name |-> "Blog", url |-> <<"blog.example.com", "/feed">>, has_discussion |-> TRUE] >>

HnItem1 == <<HN, "/item?id=", "1">>

ArticleA == <<"example.com", "/a">>

ArticleB == <<"example.com", "/b">>

RepliesB == <<"example.com", "/b", "/replies">>

CommentsA == <<"example.com", "/a", "/comments">>

\* A feed document with two items; the second has no title, no published time
\* and a link tagged as replies.
BodyTwoItems ==
    [bytes |-> [utf8 |-> TRUE,
                text |-> <<"<rss>", "<item>", "<link>", " ", "example.com", "/a", " ", "</link>",
                           "<comments>", "example.com", "/a", "/comments", "</comments>",
                           "</item>",
                           "<item>", "<link>", "example.com", "/b", "</link>", "</item>",
                           "</rss>">>],
     parsed |-> [ok |-> TRUE,
                 entries |-> << [id |-> HnItem1, title |-> Some("Title A"),
                                 links |-> <<[href |-> ArticleA, rel |-> None]>>,
                                 published |-> Some(1), updated |-> None],
                                [id |-> <<"guid-b">>, title |-> None,
                                 links |-> <<[href |-> ArticleB, rel |-> None],
                                             [href |-> RepliesB, rel |-> Some("REPLIES")]>>,
                                 published |-> None, updated |-> Some(0)] >>]]

\* A body that is no feed at all (an HTML error page): parser::parse fails.
BodyNotAFeed ==
    [bytes |-> [utf8 |-> TRUE, text |-> <<"<html>", "</html>">>],
     parsed |-> [ok |-> FALSE, entries |-> <<>>]]

\* What one GET can bring back: a transport failure (connect, timeout, body
\* read), or a response with a status and one of the bodies.
ResponsesWith(bodies) ==
    {[transport |-> "error", status |-> 0, body |-> BodyNotAFeed]}
        \cup [transport : {"ok"}, status : {200, 500}, body : bodies]

\* The responses the feeds' servers give in Spec.
Responses == ResponsesWith({BodyTwoItems, BodyNotAFeed})

\* -------------------------------------------------------------------- state

VARIABLES
    feeds,       \* the feeds table: a set of rows
    items,       \* the items table: a set of rows
    now,         \* the wall clock (Utc::now); a cycle only reads it
    refreshing,  \* Fetcher.refreshing, the RwLock<bool>
    pc,          \* where each caller of refresh_all_feeds stands
    local,       \* each caller's locals inside refresh_all_feeds
    lastRet,     \* history: how the latest refresh_all_feeds call returned
    audit,       \* history: what the running cycle has done so far, per feed
    call,        \* history: the latest call made on the store from outside a cycle
    upserts,     \* the upsert_item calls of the store's concurrent clients
    pure         \* a call of one of the fetcher's pure functions: arguments, result

vars == <<feeds, items, now, refreshing, pc, local, lastRet, audit, call, upserts, pure>>

\* Caller 0 is start_background_refresh; the others are tasks spawned by
\* routes::refresh.
Scheduler == 0

Callers == 0..MaxTriggers

InCycle == {"listing", "fetching", "ingesting", "recording", "releasing"}

NoLocals ==
    [feeds |-> <<>>, i |-> 0, status |-> 0, entries |-> <<>>, comments_map |-> EmptyMap,
     err |-> None, result |-> "none"]

FeedIds == {r.id : r \in feeds}

NoAudit ==
    [fetched |-> <<>>,
     outcome |-> [f \in FeedIds |-> "none"],
     recorded |-> [f \in FeedIds |-> FALSE],
     touched |-> {}]

\* No pure function is being called.
NoPure == [fn |-> "none", args |-> <<>>, done |-> FALSE, ret |-> <<>>]

\* No call on the store has been made yet.
NoCall == [op |-> "none", args |-> <<>>, before |-> <<>>, repeat |-> FALSE]

ItemsOf(itemRows, feed_id) == {r \in itemRows : r.feed_id = feed_id}

\* The fields of a Feed that a cycle reads from its copy of the row.
FeedCopy(r) == [id |-> r.id, name |-> r.name, url |-> r.url, has_discussion |-> r.has_discussion]

RECURSIVE MapSeq(_)
MapSeq(rows) == IF rows = <<>> THEN <<>> ELSE <<FeedCopy(Head(rows))>> \o MapSeq(Tail(rows))

\* The state main() builds before it spawns anything: the tables created, the
\* configured feeds synced, no item yet, the flag clear.
Init ==
    /\ feeds = sync_feeds({}, FeedConfigs)
    /\ items = {}
    /\ now = 0
    /\ refreshing = FALSE
    /\ pc = [c \in Callers |-> "idle"]
    /\ local = [c \in Callers |-> NoLocals]
    /\ lastRet = "none"
    /\ call = NoCall
    /\ upserts = <<>>
    /\ pure = NoPure
    /\ audit = [fetched |-> <<>>,
                outcome |-> [f \in {r.id : r \in sync_feeds({}, FeedConfigs)} |-> "none"],
                recorded |-> [f \in {r.id : r \in sync_feeds({}, FeedConfigs)} |-> FALSE],
                touched |-> {}]

\* ------------------------------------------------------------- coordinator

\* start_background_refresh: the initial call, and the call after each sleep.
ScheduledRefresh ==
    /\ pc[Scheduler] = "idle"
    /\ pc' = [pc EXCEPT ![Scheduler] = "acquire"]
    /\ UNCHANGED <<feeds, items, now, refreshing, local, lastRet, audit, call, upserts, pure>>

\* routes::refresh: a detached task that calls refresh_all_feeds.
TriggerRefresh(c) ==
    /\ c # Scheduler
    /\ pc[c] = "idle"
    /\ pc' = [pc EXCEPT ![c] = "acquire"]
    /\ UNCHANGED <<feeds, items, now, refreshing, local, lastRet, audit, call, upserts, pure>>

\* A faulty acquisition that sets the flag without looking at it.
AcquireUnchecked(c) ==
    /\ pc[c] = "acquire"
    /\ refreshing' = TRUE
    /\ pc' = [pc EXCEPT ![c] = "listing"]
    /\ audit' = NoAudit
    /\ lastRet' = "none"
    /\ UNCHANGED <<feeds, items, now, local, call, upserts, pure>>

\* A faulty acquisition whose early return clears the flag it did not set.
AcquireAbsorbClears(c) ==
    /\ pc[c] = "acquire"
    /\ IF refreshing
       THEN /\ pc' = [pc EXCEPT ![c] = "idle"]
            /\ lastRet' = "Absorbed"
            /\ refreshing' = FALSE
            /\ UNCHANGED <<feeds, items, now, local, audit, call, upserts, pure>>
       ELSE /\ refreshing' = TRUE
            /\ pc' = [pc EXCEPT ![c] = "listing"]
            /\ audit' = NoAudit
            /\ lastRet' = "none"
            /\ UNCHANGED <<feeds, items, now, local, call, upserts, pure>>

\* refresh_all_feeds, the block under the write lock: check the flag and set it.
Acquire(c) ==
    /\ pc[c] = "acquire"
    /\ IF refreshing
       THEN /\ pc' = [pc EXCEPT ![c] = "idle"]
            /\ lastRet' = "Absorbed"
            /\ UNCHANGED <<feeds, items, now, refreshing, local, audit, call, upserts, pure>>
       ELSE /\ refreshing' = TRUE
            /\ pc' = [pc EXCEPT ![c] = "listing"]
            /\ audit' = NoAudit
            /\ lastRet' = "none"
            /\ UNCHANGED <<feeds, items, now, local, call, upserts, pure>>

\* do_refresh_all: get_all_feeds()?, which a storage failure ends with Err.
ListFeeds(c) ==
    /\ pc[c] = "listing"
    /\ \E dbOk \in BOOLEAN :
         IF dbOk
         THEN LET list == MapSeq(get_all_feeds(feeds))
              IN  /\ local' = [local EXCEPT ![c].feeds = list, ![c].i = 1,
                                            ![c].result = IF list = <<>> THEN "Ok" ELSE "none"]
                  /\ pc' = [pc EXCEPT ![c] = IF list = <<>> THEN "releasing" ELSE "fetching"]
         ELSE /\ local' = [local EXCEPT ![c].result = "Err"]
              /\ pc' = [pc EXCEPT ![c] = "releasing"]
    /\ UNCHANGED <<feeds, items, now, refreshing, lastRet, audit, call, upserts, pure>>

\* refresh_feed up to the entry loop: send, bytes, extract_comments_from_xml,
\* parser::parse. The response's status is never looked at.
Fetch(c, responses) ==
    /\ pc[c] = "fetching"
    /\ \E r \in responses :
         LET feed == local[c].feeds[local[c].i]
             seen == [audit EXCEPT !.fetched = Append(@, feed.id)]
         IN  IF r.transport = "error"
             THEN /\ local' = [local EXCEPT ![c].err = Some("FetchError")]
                  /\ pc' = [pc EXCEPT ![c] = "recording"]
                  /\ audit' = [seen EXCEPT !.outcome[feed.id] = "FetchError"]
             ELSE IF ~r.body.parsed.ok
             THEN /\ local' = [local EXCEPT ![c].err = Some("ParseError"),
                                            ![c].status = r.status]
                  /\ pc' = [pc EXCEPT ![c] = "recording"]
                  /\ audit' = [seen EXCEPT !.outcome[feed.id] = "ParseError"]
             ELSE /\ local' = [local EXCEPT
                                 ![c].status = r.status,
                                 ![c].comments_map = extract_comments_from_xml(r.body.bytes),
                                 ![c].entries = r.body.parsed.entries]
                  /\ pc' = [pc EXCEPT ![c] = IF r.body.parsed.entries = <<>>
                                             THEN "recording" ELSE "ingesting"]
                  /\ audit' = IF r.body.parsed.entries = <<>>
                              THEN [seen EXCEPT !.outcome[feed.id] = "Ok"]
                              ELSE seen
    /\ UNCHANGED <<feeds, items, now, refreshing, lastRet, call, upserts, pure>>

\* entry.title's content, or "Untitled".
EntryTitle(entry) == IF IsSome(entry.title) THEN Unwrap(entry.title) ELSE "Untitled"

\* entry.links.first()'s href, or the empty string.
EntryLink(entry) == IF entry.links = <<>> THEN <<>> ELSE entry.links[1].href

\* A faulty derivation without the fallback to entry.updated.
EntryPublishedNoFallback(entry) == entry.published

\* entry.published.or(entry.updated)
EntryPublished(entry) == IF IsSome(entry.published) THEN entry.published ELSE entry.updated

\* One iteration of refresh_feed's loop over parsed.entries: skip an entry with
\* no link, else resolve the discussion link and upsert_item(); upsertError is
\* what refresh_feed returns when the upsert fails.
IngestWith(c, upsertError) ==
    /\ pc[c] = "ingesting"
    /\ LET feed == local[c].feeds[local[c].i]
           entry == Head(local[c].entries)
           rest == Tail(local[c].entries)
           guid == entry.id
           title == EntryTitle(entry)
           link == EntryLink(entry)
           discussion_link ==
               extract_discussion_link(feed, entry, MapGet(local[c].comments_map, link), link)
           published == EntryPublished(entry)
       IN  \E dbOk \in BOOLEAN :
             LET stored == link # <<>> /\ dbOk
                 failed == link # <<>> /\ ~dbOk
                 after == IF stored
                          THEN upsert_item(items, feed.id, guid, title, link,
                                           discussion_link, published)
                          ELSE items
                 done == failed \/ rest = <<>>
             IN  /\ link = <<>> => dbOk
                 /\ items' = after
                 /\ local' = [local EXCEPT
                                ![c].entries = IF failed THEN <<>> ELSE rest,
                                ![c].err = IF failed THEN upsertError ELSE None]
                 /\ pc' = [pc EXCEPT ![c] = IF done THEN "recording" ELSE "ingesting"]
                 /\ audit' = [audit EXCEPT
                                !.outcome[feed.id] =
                                    IF failed THEN "StorageError"
                                    ELSE IF done THEN "Ok" ELSE @,
                                !.touched = @ \cup {f \in FeedIds :
                                                ItemsOf(after, f) # ItemsOf(items, f)}]
    /\ UNCHANGED <<feeds, now, refreshing, lastRet, call, upserts, pure>>

\* A faulty loop that drops the upsert's error (let _ =) and reports success.
IngestSwallow(c) == IngestWith(c, None)

\* A faulty loop that notes a failed upsert and goes on with the next entry.
IngestGoesOn(c) ==
    /\ pc[c] = "ingesting"
    /\ LET feed == local[c].feeds[local[c].i]
           entry == Head(local[c].entries)
           rest == Tail(local[c].entries)
           link == EntryLink(entry)
           discussion_link ==
               extract_discussion_link(feed, entry, MapGet(local[c].comments_map, link), link)
       IN  \E dbOk \in BOOLEAN :
             LET stored == link # <<>> /\ dbOk
                 failed == link # <<>> /\ ~dbOk
                 after == IF stored
                          THEN upsert_item(items, feed.id, entry.id, EntryTitle(entry), link,
                                           discussion_link, EntryPublished(entry))
                          ELSE items
                 err == IF failed THEN Some("StorageError") ELSE local[c].err
             IN  /\ link = <<>> => dbOk
                 /\ items' = after
                 /\ local' = [local EXCEPT ![c].entries = rest, ![c].err = err]
                 /\ pc' = [pc EXCEPT ![c] = IF rest = <<>> THEN "recording" ELSE "ingesting"]
                 /\ audit' = [audit EXCEPT
                                !.outcome[feed.id] =
                                    IF IsSome(err) THEN "StorageError"
                                    ELSE IF rest = <<>> THEN "Ok" ELSE @,
                                !.touched = @ \cup {f \in FeedIds :
                                                ItemsOf(after, f) # ItemsOf(items, f)}]
    /\ UNCHANGED <<feeds, now, refreshing, lastRet, call, upserts, pure>>

\* The ? after upsert_item(...).await hands the storage error to the caller.
Ingest(c) == IngestWith(c, Some("StorageError"))

\* A faulty loop that lets a feed's error end the cycle (refresh_feed(..)?).
RecordAbortOnError(c) ==
    /\ pc[c] = "recording"
    /\ LET feed == local[c].feeds[local[c].i]
           last == local[c].i = Len(local[c].feeds)
           stop == last \/ IsSome(local[c].err)
       IN  \E dbOk \in BOOLEAN :
             /\ feeds' = IF dbOk
                         THEN update_feed_fetched(feeds, now, feed.id, local[c].err, None)
                         ELSE feeds
             /\ audit' = [audit EXCEPT !.recorded[feed.id] = dbOk]
             /\ local' = [local EXCEPT ![c].i = @ + 1, ![c].err = None, ![c].status = 0,
                                       ![c].comments_map = EmptyMap,
                                       ![c].result = IF IsSome(local[c].err) THEN "Err"
                                                     ELSE IF last THEN "Ok" ELSE "none"]
             /\ pc' = [pc EXCEPT ![c] = IF stop THEN "releasing" ELSE "fetching"]
    /\ UNCHANGED <<items, now, refreshing, lastRet, call, upserts, pure>>

\* A faulty loop that fetches a feed a second time when its refresh failed.
RecordRetriesOnce(c) ==
    /\ pc[c] = "recording"
    /\ LET feed == local[c].feeds[local[c].i]
           last == local[c].i = Len(local[c].feeds)
           retry == /\ IsSome(local[c].err)
                    /\ Cardinality({k \in 1..Len(audit.fetched) : audit.fetched[k] = feed.id}) < 2
       IN  IF retry
           THEN /\ local' = [local EXCEPT ![c].err = None, ![c].status = 0,
                                          ![c].comments_map = EmptyMap]
                /\ pc' = [pc EXCEPT ![c] = "fetching"]
                /\ UNCHANGED <<feeds, audit>>
           ELSE \E dbOk \in BOOLEAN :
                  /\ feeds' = IF dbOk
                              THEN update_feed_fetched(feeds, now, feed.id, local[c].err, None)
                              ELSE feeds
                  /\ audit' = [audit EXCEPT !.recorded[feed.id] = dbOk]
                  /\ local' = [local EXCEPT ![c].i = @ + 1, ![c].err = None, ![c].status = 0,
                                            ![c].comments_map = EmptyMap,
                                            ![c].result = IF last THEN "Ok" ELSE "none"]
                  /\ pc' = [pc EXCEPT ![c] = IF last THEN "releasing" ELSE "fetching"]
    /\ UNCHANGED <<items, now, refreshing, lastRet, call, upserts, pure>>

\* do_refresh_all after refresh_feed returned: update_feed_fetched with the
\* error or with none, its own result thrown away (let _ =), then the next feed.
Record(c) ==
    /\ pc[c] = "recording"
    /\ LET feed == local[c].feeds[local[c].i]
           last == local[c].i = Len(local[c].feeds)
       IN  \E dbOk \in BOOLEAN :
             /\ feeds' = IF dbOk
                         THEN update_feed_fetched(feeds, now, feed.id, local[c].err, None)
                         ELSE feeds
             /\ audit' = [audit EXCEPT !.recorded[feed.id] = dbOk]
             /\ local' = [local EXCEPT ![c].i = @ + 1, ![c].err = None, ![c].status = 0,
                                       ![c].comments_map = EmptyMap,
                                       ![c].result = IF last THEN "Ok" ELSE "none"]
             /\ pc' = [pc EXCEPT ![c] = IF last THEN "releasing" ELSE "fetching"]
    /\ UNCHANGED <<items, now, refreshing, lastRet, call, upserts, pure>>

\* A faulty return path that propagates the cycle's error before the flag is
\* cleared (do_refresh_all().await?).
ReleaseOnlyOnOk(c) ==
    /\ pc[c] = "releasing"
    /\ refreshing' = (local[c].result = "Err")
    /\ lastRet' = local[c].result
    /\ pc' = [pc EXCEPT ![c] = "idle"]
    /\ local' = [local EXCEPT ![c] = NoLocals]
    /\ audit' = NoAudit
    /\ UNCHANGED <<feeds, items, now, call, upserts, pure>>

\* A faulty return path that returns the result and forgets the flag.
ReleaseWithoutClear(c) ==
    /\ pc[c] = "releasing"
    /\ lastRet' = local[c].result
    /\ pc' = [pc EXCEPT ![c] = "idle"]
    /\ local' = [local EXCEPT ![c] = NoLocals]
    /\ audit' = NoAudit
    /\ UNCHANGED <<feeds, items, now, refreshing, call, upserts, pure>>

\* refresh_all_feeds after do_refresh_all returned: clear the flag, return the
\* result.
Release(c) ==
    /\ pc[c] = "releasing"
    /\ refreshing' = FALSE
    /\ lastRet' = local[c].result
    /\ pc' = [pc EXCEPT ![c] = "idle"]
    /\ local' = [local EXCEPT ![c] = NoLocals]
    /\ audit' = NoAudit
    /\ UNCHANGED <<feeds, items, now, call, upserts, pure>>

\* The task running a cycle ends inside one feed's processing without
\* returning: a panic unwinds it, or its future is dropped. Nothing after
\* do_refresh_all().await runs.
Abort(c) ==
    /\ pc[c] \in {"fetching", "ingesting", "recording"}
    /\ pc' = [pc EXCEPT ![c] = IF c = Scheduler THEN "aborted" ELSE "idle"]
    /\ local' = [local EXCEPT ![c] = NoLocals]
    /\ lastRet' = "Aborted"
    /\ audit' = NoAudit
    /\ UNCHANGED <<feeds, items, now, refreshing, call, upserts, pure>>

Next ==
    \/ ScheduledRefresh
    \/ \E c \in Callers : TriggerRefresh(c)
    \/ \E c \in Callers : Acquire(c)
    \/ \E c \in Callers : ListFeeds(c)
    \/ \E c \in Callers : Fetch(c, Responses)
    \/ \E c \in Callers : Ingest(c)
    \/ \E c \in Callers : Record(c)
    \/ \E c \in Callers : Release(c)
    \/ \E c \in Callers : Abort(c)

Spec == Init /\ [][Next]_vars

\* ----------------------------------------------------------- store clients

\* The coordinator at rest: what the specifications of the store alone keep
\* fixed.
CoordinatorIdle ==
    /\ refreshing = FALSE
    /\ pc = [c \in Callers |-> "idle"]
    /\ local = [c \in Callers |-> NoLocals]
    /\ lastRet = "none"
    /\ audit = NoAudit

Guids == {<<"guid-a">>, <<"guid-b">>}

\* What a caller can give upsert_item for an item: two versions that differ in
\* the published time alone, and one with another title and link, without
\* discussion link and without time.
ItemContents ==
    { [title |-> "Title A", link |-> ArticleA, discussion_link |-> Some(CommentsA),
       published |-> Some(10)],
      [title |-> "Title A", link |-> ArticleA, discussion_link |-> Some(CommentsA),
       published |-> Some(2)],
      [title |-> "Title B", link |-> ArticleB, discussion_link |-> None,
       published |-> None] }

\* The argument lists of upsert_item over the given feeds, guids and contents.
UpsertArgsOver(feedIds, guids, contents) ==
    {[feed_id |-> f, guid |-> g, title |-> c.title, link |-> c.link,
      discussion_link |-> c.discussion_link, published |-> c.published] :
        f \in feedIds, g \in guids, c \in contents}

\* SELECT * FROM items WHERE feed_id = ? AND guid = ?, as an Option.
RowOf(itemRows, feed_id, guid) ==
    IF \E r \in itemRows : r.feed_id = feed_id /\ r.guid = guid
    THEN Some(CHOOSE r \in itemRows : r.feed_id = feed_id /\ r.guid = guid)
    ELSE None

\* A client calls Database::upsert_item with the arguments a.
StoreUpsert(a) ==
    /\ a.feed_id \in FeedIds
    /\ items' = upsert_item(items, a.feed_id, a.guid, a.title, a.link,
                            a.discussion_link, a.published)
    /\ call' = [op |-> "upsert_item", args |-> a,
                before |-> RowOf(items, a.feed_id, a.guid),
                repeat |-> (call.op = "upsert_item" /\ call.args = a)]
    /\ UNCHANGED <<feeds, now, refreshing, pc, local, lastRet, audit, upserts, pure>>

\* The items table under any sequence of upsert_item calls, on a store that
\* holds the configured feeds.
InitItems ==
    /\ feeds = sync_feeds({}, FeedConfigs)
    /\ items = {}
    /\ now = 0
    /\ CoordinatorIdle
    /\ call = NoCall
    /\ upserts = <<>>
    /\ pure = NoPure

NextItems == \E a \in UpsertArgsOver(FeedIds, Guids, ItemContents) : StoreUpsert(a)

SpecItems == InitItems /\ [][NextItems]_vars

\* ------------------------------------------------- concurrent upsert_item

\* The tasks that call upsert_item at the same time, each on a connection of
\* its own from the pool.
Clients == 1..MaxClients

NoUpsert == [state |-> "idle", args |-> <<>>, seen |-> FALSE, raced |-> FALSE, seq |-> 0,
             ret |-> "none"]

\* The calls that have returned.
Returned == {p \in Clients : upserts[p].state = "returned"}

\* Client p enters upsert_item with the arguments a. seen is history: whether
\* the table held a row for (feed_id, guid) at that moment.
RaceCall(p, a) ==
    /\ upserts[p].state = "idle"
    /\ a.feed_id \in FeedIds
    /\ upserts' = [upserts EXCEPT ![p] =
                     [NoUpsert EXCEPT !.state = "called", !.args = a,
                                      !.seen = IsSome(RowOf(items, a.feed_id, a.guid))]]
    /\ UNCHANGED <<feeds, items, now, refreshing, pc, local, lastRet, audit, call, pure>>

\* A faulty upsert that decides between INSERT and UPDATE from what a SELECT
\* found when the call began: its INSERT of a row another call has inserted
\* since fails on UNIQUE(feed_id, guid).
RaceExecStale(p) ==
    /\ upserts[p].state = "called"
    /\ LET a == upserts[p].args
           published_str == IF IsSome(a.published)
                            THEN Some(to_rfc3339(Unwrap(a.published))) ELSE None
           conflict == ~upserts[p].seen /\ IsSome(RowOf(items, a.feed_id, a.guid))
       IN  /\ items' = IF conflict THEN items
                       ELSE IF upserts[p].seen
                       THEN UpdateItem(items, a.feed_id, a.guid, a.title, a.link,
                                       a.discussion_link, published_str)
                       ELSE InsertItem(items, a.feed_id, a.guid, a.title, a.link,
                                       a.discussion_link, published_str)
           /\ upserts' = [upserts EXCEPT ![p] =
                            [@ EXCEPT !.state = "returned",
                                      !.ret = IF conflict THEN "Err" ELSE "Ok",
                                      !.seq = Cardinality(Returned) + 1,
                                      !.raced = \E q \in Clients \ {p} :
                                                   upserts[q].state = "called"]]
    /\ UNCHANGED <<feeds, now, refreshing, pc, local, lastRet, audit, call, pure>>

\* Client p's statement executes and the call returns Ok. SQLite runs the
\* INSERT ... ON CONFLICT DO UPDATE statements of the pool's connections one
\* write transaction at a time: a statement that finds the database locked
\* waits for the lock, so the calls take effect one after another, each on
\* the table the one before left. seq and raced are history: the position of
\* the statement among those executed, and whether another call was under way.
RaceExec(p) ==
    /\ upserts[p].state = "called"
    /\ LET a == upserts[p].args
       IN  items' = upsert_item(items, a.feed_id, a.guid, a.title, a.link,
                                a.discussion_link, a.published)
    /\ upserts' = [upserts EXCEPT ![p] =
                     [@ EXCEPT !.state = "returned",
                               !.ret = "Ok",
                               !.seq = Cardinality(Returned) + 1,
                               !.raced = \E q \in Clients \ {p} :
                                            upserts[q].state = "called"]]
    /\ UNCHANGED <<feeds, now, refreshing, pc, local, lastRet, audit, call, pure>>

\* One upsert_item call per client, on a table that is empty or holds a row.
InitRace ==
    /\ feeds = sync_feeds({}, FeedConfigs)
    /\ items \in {{}} \cup {upsert_item({}, a.feed_id, a.guid, a.title, a.link,
                                        a.discussion_link, a.published) :
                              a \in UpsertArgsOver({1}, {<<"guid-a">>}, ItemContents)}
    /\ now = 0
    /\ CoordinatorIdle
    /\ call = NoCall
    /\ upserts = [p \in Clients |-> NoUpsert]
    /\ pure = NoPure

NextRace ==
    \/ \E p \in Clients : \E a \in UpsertArgsOver(FeedIds, {<<"guid-a">>}, ItemContents) :
         RaceCall(p, a)
    \/ \E p \in Clients : RaceExec(p)

SpecRace == InitRace /\ [][NextRace]_vars

\* ------------------------------------------------------ the store as a whole

\* Config lists that successive starts of the program can read: the configured
\* feeds; the first feed alone, renamed and without discussion; the second
\* feed's URL listed twice under two names.
RenamedConfigs ==
    << [name |-> "HN (renamed)", url |-> <<HN, "/rss">>, has_discussion |-> FALSE] >>

DoubledConfigs ==
    << [name |-> "Weblog", url |-> <<"blog.example.com", "/feed">>, has_discussion |-> FALSE],
       [name |-> "Blog", url |-> <<"blog.example.com", "/feed">>, has_discussion |-> TRUE] >>

ConfigLists == {FeedConfigs, RenamedConfigs, DoubledConfigs}

\* The error texts and homepage URLs given to update_feed_fetched; <<>> inside
\* Some is the empty string.
ErrorArgs == {None, Some("FetchError")}

HomepageArgs == {None, Some(<<>>), Some(<<"example.com">>)}

\* The program starts: Database::sync_feeds with the configs read.
StoreSync(configs) ==
    /\ feeds' = sync_feeds(feeds, configs)
    /\ call' = [op |-> "sync_feeds", args |-> configs,
                before |-> {r.url : r \in feeds},
                repeat |-> (call.op = "sync_feeds" /\ call.args = configs)]
    /\ UNCHANGED <<items, now, refreshing, pc, local, lastRet, audit, upserts, pure>>

\* A client calls Database::update_feed_fetched.
StoreUpdateFetched(feed_id, error, homepage_url) ==
    /\ feed_id \in FeedIds
    /\ feeds' = update_feed_fetched(feeds, now, feed_id, error, homepage_url)
    /\ call' = [op |-> "update_feed_fetched",
                args |-> [feed_id |-> feed_id, error |-> error, homepage_url |-> homepage_url],
                before |-> LET r == CHOOSE r \in feeds : r.id = feed_id
                           IN  [last_error |-> r.last_error, homepage_url |-> r.homepage_url],
                repeat |-> FALSE]
    /\ UNCHANGED <<items, now, refreshing, pc, local, lastRet, audit, upserts, pure>>

\* Time passes.
Tick ==
    /\ now < MaxTime
    /\ now' = now + 1
    /\ UNCHANGED <<feeds, items, refreshing, pc, local, lastRet, audit, call, upserts, pure>>

\* A database file before the first start: no feed, no item.
InitStore ==
    /\ feeds = {}
    /\ items = {}
    /\ now = 0
    /\ CoordinatorIdle
    /\ call = NoCall
    /\ upserts = <<>>
    /\ pure = NoPure

NextStore ==
    \/ \E configs \in ConfigLists : StoreSync(configs)
    \/ \E f \in FeedIds : \E e \in ErrorArgs : \E h \in HomepageArgs : StoreUpdateFetched(f, e, h)
    \/ \E a \in UpsertArgsOver(FeedIds, {<<"guid-a">>}, {c \in ItemContents : c.published # Some(2)}) :
         StoreUpsert(a)
    \/ Tick

SpecStore == InitStore /\ [][NextStore]_vars

\* -------------------------------------------------- the scheduler, scheduled

\* The runtime keeps running the background task: its sleep ends, its lock
\* acquisitions are granted, its requests end by an answer or by the client's
\* timeout, and its store calls return. Nothing obliges anybody to trigger a
\* refresh, nor a task to end abnormally.
SchedulerFairness ==
    /\ WF_vars(ScheduledRefresh)
    /\ WF_vars(Acquire(Scheduler))
    /\ WF_vars(ListFeeds(Scheduler))
    /\ WF_vars(Fetch(Scheduler, Responses))
    /\ WF_vars(Ingest(Scheduler))
    /\ WF_vars(Record(Scheduler))
    /\ WF_vars(Release(Scheduler))

SpecLive == Init /\ [][Next]_vars /\ SchedulerFairness

\* ------------------------------------------------- cycles that all terminate

\* A feed document with one item.
BodyOneItem ==
    [bytes |-> [utf8 |-> TRUE,
                text |-> <<"<rss>", "<item>", "<link>", "example.com", "/a", "</link>",
                           "</item>", "</rss>">>],
     parsed |-> [ok |-> TRUE,
                 entries |-> << [id |-> <<"guid-a">>, title |-> Some("Title A"),
                                 links |-> <<[href |-> ArticleA, rel |-> None]>>,
                                 published |-> Some(1), updated |-> None] >>]]

\* What one GET can bring back here: a failure, a one-item feed, no feed.
TerminatingResponses == ResponsesWith({BodyOneItem, BodyNotAFeed})

\* Every task runs to the end of refresh_all_feeds: every request ends, by an
\* answer, an error or the client's timeout, every store call returns, and no
\* task ends abnormally.
NextTerminating ==
    \/ ScheduledRefresh
    \/ \E c \in Callers : TriggerRefresh(c)
    \/ \E c \in Callers : Acquire(c)
    \/ \E c \in Callers : ListFeeds(c)
    \/ \E c \in Callers : Fetch(c, TerminatingResponses)
    \/ \E c \in Callers : Ingest(c)
    \/ \E c \in Callers : Record(c)
    \/ \E c \in Callers : Release(c)

\* The runtime keeps running every task that is inside refresh_all_feeds.
CycleFairness ==
    \A c \in Callers :
        /\ WF_vars(Acquire(c))
        /\ WF_vars(ListFeeds(c))
        /\ WF_vars(Fetch(c, TerminatingResponses))
        /\ WF_vars(Ingest(c))
        /\ WF_vars(Record(c))
        /\ WF_vars(Release(c))

SpecTerminating == Init /\ [][NextTerminating]_vars /\ CycleFairness

\* ------------------------------------------ cycles over entries of every kind

\* A feed document whose entries are, in this order: one without any link;
\* one without title, published and updated; one whose first link has an
\* empty href; one with updated only; one with published and updated.
BodyMixedEntries ==
    [bytes |-> [utf8 |-> TRUE, text |-> <<"<feed>", "</feed>">>],
     parsed |-> [ok |-> TRUE,
                 entries |-> << [id |-> <<"guid-nolink">>, title |-> Some("Title N"),
                                 links |-> <<>>,
                                 published |-> Some(1), updated |-> None],
                                [id |-> <<"guid-a">>, title |-> None,
                                 links |-> <<[href |-> ArticleA, rel |-> None]>>,
                                 published |-> None, updated |-> None],
                                [id |-> <<"guid-emptyhref">>, title |-> Some("Title E"),
                                 links |-> <<[href |-> <<>>, rel |-> None],
                                             [href |-> ArticleB, rel |-> None]>>,
                                 published |-> Some(1), updated |-> None],
                                [id |-> <<"guid-b">>, title |-> Some("Title B"),
                                 links |-> <<[href |-> ArticleB, rel |-> None]>>,
                                 published |-> None, updated |-> Some(0)],
                                [id |-> <<"guid-c">>, title |-> Some("Title C"),
                                 links |-> <<[href |-> RepliesB, rel |-> None]>>,
                                 published |-> Some(1), updated |-> Some(0)] >>]]

\* Servers that answer with that document, when they answer.
MixedResponses == ResponsesWith({BodyMixedEntries})

\* The scheduler's cycles against such servers.
NextIngest ==
    \/ ScheduledRefresh
    \/ Acquire(Scheduler)
    \/ ListFeeds(Scheduler)
    \/ Fetch(Scheduler, MixedResponses)
    \/ Ingest(Scheduler)
    \/ Record(Scheduler)
    \/ Release(Scheduler)
    \/ Abort(Scheduler)

SpecIngest == Init /\ [][NextIngest]_vars

\* ------------------------------------------------ upserts, with their keys

\* A client calls Database::upsert_item with the arguments a, successfully.
\* upserts is history here: the (feed_id, guid) pairs upserted so far.
KeyedUpsert(a) ==
    /\ a.feed_id \in FeedIds
    /\ items' = upsert_item(items, a.feed_id, a.guid, a.title, a.link,
                            a.discussion_link, a.published)
    /\ call' = [op |-> "upsert_item", args |-> a,
                before |-> RowOf(items, a.feed_id, a.guid),
                repeat |-> (call.op = "upsert_item" /\ call.args = a)]
    /\ upserts' = upserts \cup {<<a.feed_id, a.guid>>}
    /\ UNCHANGED <<feeds, now, refreshing, pc, local, lastRet, audit, pure>>

\* The store with the configured feeds, before any upsert.
InitKeyed ==
    /\ feeds = sync_feeds({}, FeedConfigs)
    /\ items = {}
    /\ now = 0
    /\ CoordinatorIdle
    /\ call = NoCall
    /\ upserts = {}
    /\ pure = NoPure

NextKeyed == \E a \in UpsertArgsOver(FeedIds, Guids, ItemContents) : KeyedUpsert(a)

SpecKeyed == InitKeyed /\ [][NextKeyed]_vars

\* ------------------------------------------------- pages of a fixed table

\* The argument lists of upsert_item that build the tables: three guids of
\* the first feed and one of the second, with every content.
PageUpserts ==
    UpsertArgsOver({1}, {<<"guid-a">>, <<"guid-b">>, <<"guid-c">>}, ItemContents)
        \cup UpsertArgsOver({2}, {<<"guid-a">>}, ItemContents)

\* The items tables that at most n successful upsert_item calls leave.
RECURSIVE PageTables(_)
PageTables(n) ==
    IF n = 0
    THEN {{}}
    ELSE LET fewer == PageTables(n - 1)
         IN  fewer \cup {upsert_item(t, a.feed_id, a.guid, a.title, a.link,
                                     a.discussion_link, a.published) :
                            t \in fewer, a \in PageUpserts}

\* The pages get_items_for_feed returns for the offsets offset, offset + limit,
\* offset + 2 limit, ... up to the first empty one; limit > 0.
RECURSIVE Pages(_, _, _, _)
Pages(itemRows, feed_id, limit, offset) ==
    LET page == get_items_for_feed(itemRows, feed_id, limit, offset)
    IN  IF page = <<>>
        THEN <<>>
        ELSE <<page>> \o Pages(itemRows, feed_id, limit, offset + limit)

\* A client reads a feed page by page, with nothing written meanwhile.
ReadPages(feed_id, limit) ==
    /\ ~pure.done
    /\ pure' = [fn |-> "get_items_for_feed",
                args |-> [feed_id |-> feed_id, limit |-> limit],
                done |-> TRUE,
                ret |-> Pages(items, feed_id, limit, 0)]
    /\ UNCHANGED <<feeds, items, now, refreshing, pc, local, lastRet, audit, call, upserts>>

\* A store with the configured feeds and any of the tables.
InitPages ==
    /\ feeds = sync_feeds({}, FeedConfigs)
    /\ items \in PageTables(MaxRows)
    /\ now = 0
    /\ CoordinatorIdle
    /\ call = NoCall
    /\ upserts = <<>>
    /\ pure = NoPure

NextPages == \E f \in FeedIds : \E L \in 1..MaxLimit : ReadPages(f, L)

SpecPages == InitPages /\ [][NextPages]_vars

\* ------------------------------------------------------- the route layer

\* routes::ITEMS_PER_PAGE
ITEMS_PER_PAGE == 15

\* The largest and the smallest i64. The model's machine word has 8 bits
\* instead of 64: sums behave the same way at either width.
I64_MAX == 127

I64_MIN == -128

\* a + b in a debug build panics when it overflows; in a release build it
\* wraps around.
Overflows(a, b) == a + b > I64_MAX \/ a + b < I64_MIN

WrappingAdd(a, b) ==
    IF a + b > I64_MAX THEN a + b - (I64_MAX - I64_MIN + 1)
    ELSE IF a + b < I64_MIN THEN a + b + (I64_MAX - I64_MIN + 1)
    ELSE a + b

\* An items table with n items of the first feed and none of the second.
TableOf(n) ==
    {[id |-> k, feed_id |-> 1, guid |-> <<"guid", k>>, title |-> "Title A",
      link |-> ArticleA, discussion_link |-> None,
      published |-> IF k % 2 = 0 THEN Some(to_rfc3339(k \div 2)) ELSE None] : k \in 1..n}

\* The numbers of items around the page boundaries.
RouteTotals == {0, 1, 14, 15, 16, 29, 30, 31}

\* The offsets a request can carry (MoreQuery.offset: any i64).
RouteOffsets == {-1, 0, 1, 14, 15, 16, 30, I64_MAX - 15, I64_MAX - 14, I64_MAX}

\* routes::index, for one feed of its loop: the first page and has_more.
Index(feed_id) ==
    /\ ~pure.done
    /\ LET page == get_items_for_feed(items, feed_id, ITEMS_PER_PAGE, 0)
           total == get_item_count_for_feed(items, feed_id)
       IN  pure' = [fn |-> "index", args |-> [feed_id |-> feed_id], done |-> TRUE,
                    ret |-> [panicked |-> FALSE, items |-> page,
                             has_more |-> total > ITEMS_PER_PAGE]]
    /\ UNCHANGED <<feeds, items, now, refreshing, pc, local, lastRet, audit, call, upserts>>

\* routes::feed_more for a stored feed: the page at the offset, has_more and
\* the next offset. offset + ITEMS_PER_PAGE is an i64 sum: when it overflows
\* the handler panics or goes on with the wrapped sum, by the build.
FeedMore(feed_id, offset) ==
    /\ ~pure.done
    /\ LET page == get_items_for_feed(items, feed_id, ITEMS_PER_PAGE, offset)
           total == get_item_count_for_feed(items, feed_id)
           next == WrappingAdd(offset, ITEMS_PER_PAGE)
       IN  \E build \in {"debug", "release"} :
             pure' = [fn |-> "feed_more",
                      args |-> [feed_id |-> feed_id, offset |-> offset],
                      done |-> TRUE,
                      ret |-> IF build = "debug" /\ Overflows(offset, ITEMS_PER_PAGE)
                              THEN [panicked |-> TRUE, items |-> <<>>, has_more |-> FALSE,
                                    offset |-> 0]
                              ELSE [panicked |-> FALSE, items |-> page,
                                    has_more |-> next < total, offset |-> next]]
    /\ UNCHANGED <<feeds, items, now, refreshing, pc, local, lastRet, audit, call, upserts>>

\* A store that is not written to, with the configured feeds.
InitRoutes ==
    /\ feeds = sync_feeds({}, FeedConfigs)
    /\ items \in {TableOf(n) : n \in RouteTotals}
    /\ now = 0
    /\ CoordinatorIdle
    /\ call = NoCall
    /\ upserts = <<>>
    /\ pure = NoPure

NextRoutes ==
    \/ \E f \in FeedIds : Index(f)
    \/ \E f \in FeedIds : \E o \in RouteOffsets : FeedMore(f, o)

SpecRoutes == InitRoutes /\ [][NextRoutes]_vars

\* ------------------------------------------------ reads while a cycle runs

\* The one-item document after its item was edited: same guid, another title
\* and another link.
BodyOneItemChanged ==
    [bytes |-> [utf8 |-> TRUE,
                text |-> <<"<rss>", "<item>", "<link>", "example.com", "/b", "</link>",
                           "</item>", "</rss>">>],
     parsed |-> [ok |-> TRUE,
                 entries |-> << [id |-> <<"guid-a">>, title |-> Some("Title B"),
                                 links |-> <<[href |-> ArticleB, rel |-> None]>>,
                                 published |-> Some(1), updated |-> None] >>]]

\* Servers that always answer, with the document before or after the edit.
ReadResponses ==
    [transport : {"ok"}, status : {200}, body : {BodyOneItem, BodyOneItemChanged}]

\* The client whose reads are observed.
Reader == 1

\* The arguments of the route handlers' get_items_for_feed calls.
ReadArgs == [feed_id : FeedIds, limit : {MaxLimit}, offset : {0}]

\* A route handler on client p calls get_items_for_feed with the arguments a.
\* seen is history: the items table at that moment.
ReadCall(p, a) ==
    /\ upserts[p].state = "idle"
    /\ upserts' = [upserts EXCEPT ![p] =
                     [NoUpsert EXCEPT !.state = "called", !.args = a, !.seen = items,
                                      !.ret = <<>>]]
    /\ UNCHANGED <<feeds, items, now, refreshing, pc, local, lastRet, audit, call, pure>>

\* A faulty read that fetches the rows' links when it is called and the rest
\* when it returns (two statements outside a transaction).
ReadExecTorn(p) ==
    /\ upserts[p].state = "called"
    /\ LET a == upserts[p].args
           early == upserts[p].seen
           torn == {IF \E o \in early : o.id = r.id
                    THEN [r EXCEPT !.link = (CHOOSE o \in early : o.id = r.id).link]
                    ELSE r : r \in items}
       IN  upserts' = [upserts EXCEPT ![p] =
                         [@ EXCEPT !.state = "returned",
                                   !.ret = get_items_for_feed(torn, a.feed_id, a.limit, a.offset),
                                   !.raced = refreshing]]
    /\ UNCHANGED <<feeds, items, now, refreshing, pc, local, lastRet, audit, call, pure>>

\* The SELECT of get_items_for_feed executes on a connection of its own and
\* the call returns its rows: one statement, which reads the table as one
\* committed state. It takes neither the refreshing flag nor anything else a
\* cycle holds between its upserts. raced is history: whether a cycle was
\* running.
ReadExec(p) ==
    /\ upserts[p].state = "called"
    /\ LET a == upserts[p].args
       IN  upserts' = [upserts EXCEPT ![p] =
                         [@ EXCEPT !.state = "returned",
                                   !.ret = get_items_for_feed(items, a.feed_id, a.limit, a.offset),
                                   !.raced = refreshing]]
    /\ UNCHANGED <<feeds, items, now, refreshing, pc, local, lastRet, audit, call, pure>>

\* The program as started by main, with route handlers that have not read yet.
InitRead ==
    /\ feeds = sync_feeds({}, FeedConfigs)
    /\ items = {}
    /\ now = 0
    /\ CoordinatorIdle
    /\ call = NoCall
    /\ upserts = [p \in Clients |-> NoUpsert]
    /\ pure = NoPure

\* The scheduler's cycles, and a read of the client at any moment.
NextRead ==
    \/ ScheduledRefresh
    \/ Acquire(Scheduler)
    \/ ListFeeds(Scheduler)
    \/ Fetch(Scheduler, ReadResponses)
    \/ Ingest(Scheduler)
    \/ Record(Scheduler)
    \/ Release(Scheduler)
    \/ \E a \in ReadArgs : ReadCall(Reader, a)
    \/ ReadExec(Reader)

SpecRead == InitRead /\ [][NextRead]_vars

\* ------------------------------------------- cycles over non-UTF-8 documents

\* A feed document in a one-byte encoding: std::str::from_utf8 rejects the
\* bytes, the parser decodes them by the document's declaration. The text is
\* what the bytes read as with the offending bytes replaced.
BodyLatin1 ==
    [bytes |-> [utf8 |-> FALSE,
                text |-> <<"<rss>", "<item>", "<title>", "Caf?", "</title>",
                           "<link>", "example.com", "/a", "</link>",
                           "<comments>", "example.com", "/a", "/comments", "</comments>",
                           "</item>", "</rss>">>],
     parsed |-> [ok |-> TRUE,
                 entries |-> << [id |-> <<"guid-a">>, title |-> Some("Title A"),
                                 links |-> <<[href |-> ArticleA, rel |-> None]>>,
                                 published |-> Some(1), updated |-> None] >>]]

\* Bytes that are neither UTF-8 nor a feed: parser::parse fails on them.
BodyBinary ==
    [bytes |-> [utf8 |-> FALSE, text |-> <<"?", "<item>", "?">>],
     parsed |-> [ok |-> FALSE, entries |-> <<>>]]

\* Servers that answer with non-UTF-8 bytes only.
BytesResponses == ResponsesWith({BodyLatin1, BodyBinary})

\* The scheduler's cycles against such servers.
NextBytes ==
    \/ ScheduledRefresh
    \/ Acquire(Scheduler)
    \/ ListFeeds(Scheduler)
    \/ Fetch(Scheduler, BytesResponses)
    \/ Ingest(Scheduler)
    \/ Record(Scheduler)
    \/ Release(Scheduler)
    \/ Abort(Scheduler)

SpecBytes == Init /\ [][NextBytes]_vars

\* --------------------------------------------------- the resolver by itself

HnItem2 == <<HN, "/item?id=", "2">>

LobstersStory1 == <<LOBSTERS, "/s/", "abc">>

\* Feeds on Hacker News, on Lobste.rs and elsewhere, with and without the
\* has_discussion flag.
ResolverFeeds ==
    {[id |-> 1, name |-> "Feed", url |-> u, has_discussion |-> d] :
        u \in {<<HN, "/rss">>, <<LOBSTERS, "/rss">>, <<"blog.example.com", "/feed">>},
        d \in BOOLEAN}

\* The links an entry can carry after its first one: none; one tagged REPLIES;
\* an untagged one followed by two tagged ones.
MoreLinks ==
    { <<>>,
      <<[href |-> RepliesB, rel |-> Some("REPLIES")]>>,
      <<[href |-> ArticleB, rel |-> Some("alternate")],
        [href |-> RepliesB, rel |-> Some("Comments")],
        [href |-> CommentsA, rel |-> Some("replies")]>> }

\* The argument lists of extract_discussion_link as refresh_feed builds them:
\* main_link is the href of the entry's first link.
ResolverInputs ==
    {[feed |-> f,
      entry |-> [id |-> i, title |-> None,
                 links |-> <<[href |-> m, rel |-> r]>> \o more,
                 published |-> None, updated |-> None],
      comments_from_xml |-> c,
      main_link |-> m] :
        f \in ResolverFeeds,
        i \in {HnItem1, LobstersStory1, <<"guid-b">>},
        m \in {ArticleA, HnItem1, HnItem2, LobstersStory1},
        r \in {None, Some("replies")},
        more \in MoreLinks,
        c \in {None, Some(CommentsA), Some(ArticleA)}}

\* refresh_feed calls Fetcher::extract_discussion_link.
Resolve ==
    /\ pure.fn = "extract_discussion_link"
    /\ ~pure.done
    /\ pure' = [pure EXCEPT !.done = TRUE,
                            !.ret = extract_discussion_link(pure.args.feed, pure.args.entry,
                                                            pure.args.comments_from_xml,
                                                            pure.args.main_link)]
    /\ UNCHANGED <<feeds, items, now, refreshing, pc, local, lastRet, audit, call, upserts>>

\* One call of the resolver on each argument list.
InitResolver ==
    /\ feeds = {}
    /\ items = {}
    /\ now = 0
    /\ CoordinatorIdle
    /\ call = NoCall
    /\ upserts = <<>>
    /\ pure \in {[fn |-> "extract_discussion_link", args |-> a, done |-> FALSE, ret |-> None] :
                    a \in ResolverInputs}

NextResolver == Resolve

SpecResolver == InitResolver /\ [][NextResolver]_vars

\* ------------------------------------------- the comments extractor by itself

\* The <item> blocks a document is put together from. Each carries its text
\* and what it states up to its own </item>: its first <link> and its first
\* <comments>, trimmed.
ItemBlocks ==
    { \* both elements, with whitespace around the link
      [text |-> <<"<item>", "<link>", " ", "blog.example.com", "/a", "\n", "</link>",
                  "<comments>", "blog.example.com", "/a#c", "</comments>", "</item>">>,
       link |-> Some(<<"blog.example.com", "/a">>),
       comments |-> Some(<<"blog.example.com", "/a#c">>)],
      \* no <comments>
      [text |-> <<"<item>", "<link>", "blog.example.com", "/b", "</link>", "</item>">>,
       link |-> Some(<<"blog.example.com", "/b">>),
       comments |-> None],
      \* no <link>
      [text |-> <<"<item>", "<title>", "T", "</title>",
                  "<comments>", "blog.example.com", "/c#c", "</comments>", "</item>">>,
       link |-> None,
       comments |-> Some(<<"blog.example.com", "/c#c">>)],
      \* a <comments> after the block's </item>
      [text |-> <<"<item>", "<link>", "blog.example.com", "/d", "</link>", "</item>",
                  "<comments>", "blog.example.com", "/d#c", "</comments>">>,
       link |-> Some(<<"blog.example.com", "/d">>),
       comments |-> None],
      \* no </item>
      [text |-> <<"<item>", "<comments>", " ", "blog.example.com", "/e#c", "</comments>",
                  "<link>", "blog.example.com", "/e", "</link>">>,
       link |-> Some(<<"blog.example.com", "/e">>),
       comments |-> Some(<<"blog.example.com", "/e#c">>)],
      \* two <link> and two <comments>; the first link is the first block's
      [text |-> <<"<item>", "<link>", "blog.example.com", "/a", "</link>",
                  "<link>", "blog.example.com", "/f", "</link>",
                  "<comments>", "blog.example.com", "/f#c", "</comments>",
                  "<comments>", "blog.example.com", "/a#c", "</comments>", "</item>">>,
       link |-> Some(<<"blog.example.com", "/a">>),
       comments |-> Some(<<"blog.example.com", "/f#c">>)] }

\* The sequences of at most n item blocks.
RECURSIVE BlockLists(_)
BlockLists(n) ==
    IF n = 0
    THEN {<<>>}
    ELSE LET shorter == BlockLists(n - 1)
         IN  shorter \cup {Append(l, b) : l \in {x \in shorter : Len(x) = n - 1},
                                           b \in ItemBlocks}

\* The texts of the blocks one after the other.
RECURSIVE Concat(_)
Concat(blocks) == IF blocks = <<>> THEN <<>> ELSE Head(blocks).text \o Concat(Tail(blocks))

\* The text of a document: the channel header, with the channel's own <link>,
\* the item blocks, and the closing tags unless the document is cut short.
DocumentText(blocks, closed) ==
    <<"<rss>", "<channel>", "<link>", "blog.example.com", "</link>">>
        \o Concat(blocks)
        \o (IF closed THEN <<"</channel>", "</rss>">> ELSE <<>>)

\* The argument of extract_comments_from_xml, with the blocks it was put
\* together from.
ExtractorInputs ==
    {[blocks |-> l,
      xml_bytes |-> [utf8 |-> u, text |-> DocumentText(l, closed)]] :
        l \in BlockLists(MaxItems), closed \in BOOLEAN, u \in BOOLEAN}

\* refresh_feed calls Fetcher::extract_comments_from_xml.
Extract ==
    /\ pure.fn = "extract_comments_from_xml"
    /\ ~pure.done
    /\ pure' = [pure EXCEPT !.done = TRUE,
                            !.ret = extract_comments_from_xml(pure.args.xml_bytes)]
    /\ UNCHANGED <<feeds, items, now, refreshing, pc, local, lastRet, audit, call, upserts>>

\* One call of the extractor on each document.
InitExtractor ==
    /\ feeds = {}
    /\ items = {}
    /\ now = 0
    /\ CoordinatorIdle
    /\ call = NoCall
    /\ upserts = <<>>
    /\ pure \in {[fn |-> "extract_comments_from_xml", args |-> a, done |-> FALSE,
                  ret |-> EmptyMap] : a \in ExtractorInputs}

NextExtractor == Extract

SpecExtractor == InitExtractor /\ [][NextExtractor]_vars

\* ------------------------------------------------------------ properties

FeedRow(feed_id) == CHOOSE r \in feeds : r.id = feed_id

\* The ids of the feeds a cycle listed, in the order it listed them.
ListedIds(c) == [k \in 1..Len(local[c].feeds) |-> local[c].feeds[k].id]

\* Caller c has gone through every feed it listed and is about to release.
CycleComplete(c) == pc[c] = "releasing" /\ local[c].result = "Ok"

\* C1. Single flight: at most one caller of refresh_all_feeds is between its
\* acquisition of the flag and its release, whatever the interleaving.
C1_SingleFlight == Cardinality({c \in Callers : pc[c] \in InCycle}) <= 1

\* A second call arrives while a cycle is fetching.
C1_Witness ==
    \E c, d \in Callers : c # d /\ pc[c] = "fetching" /\ pc[d] = "acquire" /\ refreshing

\* C2. A call that finds the flag set returns at once and changes nothing: no
\* table, not the flag, not the running cycle, no other caller; it leaves no
\* request behind.
C2_AbsorbedIsNoOp ==
    [][\A c \in Callers :
         (pc[c] = "acquire" /\ refreshing /\ pc'[c] # pc[c])
             => /\ pc'[c] = "idle"
                /\ lastRet' = "Absorbed"
                /\ refreshing'
                /\ feeds' = feeds /\ items' = items /\ now' = now
                /\ local' = local /\ audit' = audit
                /\ \A d \in Callers \ {c} : pc'[d] = pc[d]]_vars

\* A call has been absorbed (it returned Ok(()) from the early return) by a
\* cycle that is still ingesting.
C2_Witness ==
    /\ lastRet = "Absorbed"
    /\ refreshing
    /\ \E d \in Callers : pc[d] = "ingesting"

\* C3. When a call that acquired the flag returns, with Ok or with Err, the
\* flag is clear in the state it returns to.
C3_ReleasedOnReturn ==
    [][\A c \in Callers :
         (pc[c] \in InCycle /\ pc'[c] = "idle" /\ lastRet' \in {"Ok", "Err"})
             => ~refreshing']_vars

\* A cycle has returned Err (listing the feeds failed) and the flag is clear.
C3_Witness == lastRet = "Err" /\ ~refreshing

\* C4. The flag is never left set by a cycle that ended abnormally: whenever
\* it is set, some caller is still inside its cycle and will release it.
C4_NoStuckFlag == refreshing => \E c \in Callers : pc[c] \in InCycle

\* C5. A cycle that listed the feeds returns Ok having attempted every stored
\* feed, in order, whatever the earlier feeds' outcomes.
C5_EveryFeedAttempted ==
    \A c \in Callers :
        (pc[c] = "releasing" /\ local[c].i > 0)
            => /\ local[c].result = "Ok"
               /\ audit.fetched = ListedIds(c)
               /\ {ListedIds(c)[k] : k \in 1..Len(ListedIds(c))} = FeedIds

\* A cycle is complete whose first feed failed to fetch or parse and whose
\* second feed succeeded.
C5_Witness ==
    \E c \in Callers :
        /\ CycleComplete(c)
        /\ audit.outcome[1] \in {"FetchError", "ParseError"}
        /\ audit.outcome[2] = "Ok"

\* C6 as claimed. After a completed cycle every feed has last_error set if and
\* only if its own refresh failed in this cycle, and last_fetched set.
C6_StatusReflectsOutcome ==
    \A c \in Callers :
        CycleComplete(c)
            => \A f \in FeedIds :
                 /\ IsSome(FeedRow(f).last_error) <=> audit.outcome[f] # "Ok"
                 /\ IsSome(FeedRow(f).last_fetched)

\* C6 as amended. The same, for every feed whose update_feed_fetched call was
\* stored; last_error then is the text of the feed's own error.
C6_StatusReflectsOutcomeWhenStored ==
    \A c \in Callers :
        CycleComplete(c)
            => \A f \in FeedIds :
                 audit.recorded[f]
                     => /\ IsSome(FeedRow(f).last_error) <=> audit.outcome[f] # "Ok"
                        /\ FeedRow(f).last_error =
                               IF audit.outcome[f] = "Ok" THEN None ELSE Some(audit.outcome[f])
                        /\ IsSome(FeedRow(f).last_fetched)

\* A completed cycle in which one feed failed, the other succeeded and both
\* updates were stored.
C6_Witness ==
    \E c \in Callers :
        /\ CycleComplete(c)
        /\ \A f \in FeedIds : audit.recorded[f]
        /\ \E f, g \in FeedIds :
             /\ audit.outcome[f] = "Ok" /\ FeedRow(f).last_error = None
             /\ audit.outcome[g] = "ParseError" /\ FeedRow(g).last_error = Some("ParseError")

\* C7 as claimed. A failed upsert_item does not fail the cycle: the cycle goes
\* on to the remaining feeds and returns Ok, and the feed's last_error is set.
C7_StorageFailureRecorded ==
    \A c \in Callers :
        (pc[c] = "releasing" /\ local[c].i > 0)
            => \A f \in FeedIds :
                 audit.outcome[f] = "StorageError"
                     => /\ local[c].result = "Ok"
                        /\ audit.fetched = ListedIds(c)
                        /\ IsSome(FeedRow(f).last_error)

\* C7 as amended. The same, with last_error set whenever the update_feed_fetched
\* call that records it was itself stored.
C7_StorageFailureRecordedWhenStored ==
    \A c \in Callers :
        (pc[c] = "releasing" /\ local[c].i > 0)
            => \A f \in FeedIds :
                 audit.outcome[f] = "StorageError"
                     => /\ local[c].result = "Ok"
                        /\ audit.fetched = ListedIds(c)
                        /\ audit.recorded[f] => FeedRow(f).last_error = Some("StorageError")

\* A completed cycle whose first feed hit a storage failure, recorded, and
\* whose second feed was ingested.
C7_Witness ==
    \E c \in Callers :
        /\ CycleComplete(c)
        /\ audit.outcome[1] = "StorageError"
        /\ audit.recorded[1]
        /\ audit.outcome[2] = "Ok"

\* C8. A response with a non-success status is a fetch failure: its entries
\* are never ingested and refresh_feed returns an error for it.
C8_NonSuccessIsFailure ==
    \A c \in Callers :
        (pc[c] \in {"ingesting", "recording"} /\ local[c].status \notin {0, 200})
            => /\ pc[c] = "recording"
               /\ IsSome(local[c].err)
               /\ local[c].feeds[local[c].i].id \notin audit.touched

\* C9. A feed whose fetch or parse failed in the running cycle has had none of
\* its item rows added or changed since the cycle began.
C9_FailedFeedKeepsItems ==
    \A f \in FeedIds :
        audit.outcome[f] \in {"FetchError", "ParseError"} => f \notin audit.touched

\* A feed that holds items fails to parse in a cycle that has stored items for
\* the other feed.
C9_Witness ==
    \E f \in FeedIds :
        /\ audit.outcome[f] = "ParseError"
        /\ ItemsOf(items, f) # {}
        /\ audit.touched # {}

\* C10. The items table never holds two rows with the same (feed_id, guid).
C10_UniqueFeedGuid ==
    \A r, q \in items : (r.feed_id = q.feed_id /\ r.guid = q.guid) => r = q

\* A feed has been ingested again, onto rows it already had: its refresh is
\* through, and nothing of it changed.
C10_Witness ==
    \E f \in FeedIds :
        /\ audit.outcome[f] = "Ok"
        /\ f \notin audit.touched
        /\ Cardinality(ItemsOf(items, f)) = 2

\* ------------------------------------------------- properties of the items

\* The row upsert_item's arguments a describe, under the id given.
RowFor(id, a) ==
    [id |-> id, feed_id |-> a.feed_id, guid |-> a.guid, title |-> a.title, link |-> a.link,
     discussion_link |-> a.discussion_link,
     published |-> IF IsSome(a.published) THEN Some(to_rfc3339(Unwrap(a.published))) ELSE None]

\* C11. upsert_item is idempotent: a call with the arguments of the call just
\* before it leaves both tables exactly as that call left them, with one row
\* for the (feed_id, guid), holding the arguments' values.
C11_UpsertIdempotent ==
    [][(call'.op = "upsert_item" /\ call'.repeat)
          => /\ items' = items
             /\ feeds' = feeds
             /\ \E r \in items' :
                  /\ r = RowFor(r.id, call'.args)
                  /\ \A q \in items' :
                       (q.feed_id = r.feed_id /\ q.guid = r.guid) => q = r]_vars

\* upsert_item has been called twice in a row with the same arguments, on a
\* row that is not the latest inserted.
C11_Witness ==
    /\ call.op = "upsert_item"
    /\ call.repeat
    /\ \E r \in items : r.id > Unwrap(call.before).id

\* C12. upsert_item on a (feed_id, guid) that is stored keeps the row's id and
\* the feed's item count, overwrites title, link, discussion_link and published
\* with the arguments (a stored value with none, when none is given) and
\* changes no other row.
C12_UpsertOverwritesInPlace ==
    [][(call'.op = "upsert_item" /\ IsSome(call'.before) /\ Unwrap(call'.before) \in items)
          => LET a == call'.args
                 old == Unwrap(call'.before)
             IN  /\ items' = (items \ {old}) \cup {RowFor(old.id, a)}
                 /\ get_item_count_for_feed(items', a.feed_id)
                        = get_item_count_for_feed(items, a.feed_id)]_vars

\* A row that had a discussion link and a published time has been upserted
\* with another title and link and with neither, beside another row of the
\* same feed.
C12_Witness ==
    /\ call.op = "upsert_item"
    /\ IsSome(call.before)
    /\ IsSome(Unwrap(call.before).discussion_link)
    /\ IsSome(Unwrap(call.before).published)
    /\ Unwrap(call.before).title # call.args.title
    /\ call.args.discussion_link = None
    /\ call.args.published = None
    /\ RowFor(Unwrap(call.before).id, call.args) \in items
    /\ get_item_count_for_feed(items, call.args.feed_id) = 2

\* C13. Items are kept per feed: the rows get_items_for_feed returns for a
\* feed are exactly that feed's rows; an upsert for one feed changes no row
\* and no item count of another feed, and where another feed holds the same
\* guid the two are distinct rows.
C13_FeedsIsolated ==
    [][\A f \in FeedIds :
         LET all == get_items_for_feed(items', f, Cardinality(items'), 0)
         IN  /\ {all[k] : k \in 1..Len(all)} = {r \in items' : r.feed_id = f}
             /\ (call'.op = "upsert_item" /\ call'.args.feed_id # f)
                    => /\ ItemsOf(items', f) = ItemsOf(items, f)
                       /\ get_item_count_for_feed(items', f) = get_item_count_for_feed(items, f)
                       /\ \A r \in ItemsOf(items, f) :
                            r.guid = call'.args.guid
                                => \E q \in items' : /\ q.feed_id = call'.args.feed_id
                                                     /\ q.guid = r.guid
                                                     /\ q.id # r.id]_vars

\* The same guid has been upserted under both feeds, with different contents.
C13_Witness ==
    /\ call.op = "upsert_item"
    /\ call.before = None
    /\ \E r, q \in items :
         /\ r.guid = q.guid /\ r.guid = call.args.guid
         /\ r.feed_id # q.feed_id
         /\ r.title # q.title
         /\ get_items_for_feed(items, r.feed_id, MaxLimit, 0) = <<r>>
         /\ get_items_for_feed(items, q.feed_id, MaxLimit, 0) = <<q>>

Min(a, b) == IF a < b THEN a ELSE b

Max(a, b) == IF a > b THEN a ELSE b

\* C15 as claimed. For a feed holding N items, get_items_for_feed(feed, L, O)
\* returns max(0, min(L, N-O)) items, for every limit and every offset.
C15_PageLength ==
    \A f \in FeedIds : \A L \in -1..MaxLimit : \A O \in -1..MaxLimit :
        Len(get_items_for_feed(items, f, L, O))
            = Max(0, Min(L, get_item_count_for_feed(items, f) - O))

\* C15 as amended. The same for every limit L >= 0 and offset O >= 0; a
\* negative offset counts as 0 and a negative limit as no limit.
C15_PageLengthNonNegative ==
    \A f \in FeedIds :
        LET N == get_item_count_for_feed(items, f)
        IN  /\ \A L \in 0..MaxLimit : \A O \in 0..MaxLimit :
                 Len(get_items_for_feed(items, f, L, O)) = Max(0, Min(L, N - O))
            /\ \A L \in -1..MaxLimit :
                 get_items_for_feed(items, f, L, -1) = get_items_for_feed(items, f, L, 0)
            /\ \A O \in -1..MaxLimit :
                 get_items_for_feed(items, f, -1, O) = get_items_for_feed(items, f, N, O)

\* A feed holds two items: a page of one from offset one has one item, and a
\* page from offset two is empty.
C15_Witness ==
    \E f \in FeedIds :
        /\ get_item_count_for_feed(items, f) = 2
        /\ Len(get_items_for_feed(items, f, 1, 1)) = 1
        /\ Len(get_items_for_feed(items, f, MaxLimit, 0)) = 2
        /\ get_items_for_feed(items, f, MaxLimit, 2) = <<>>

\* The time a stored published text stands for: its digits, read as a decimal.
RECURSIVE TimeOfText(_, _)
TimeOfText(text, acc) ==
    IF text = <<>> \/ CharRank(Head(text)) = 0
    THEN acc
    ELSE TimeOfText(Tail(text), 10 * acc + (CharRank(Head(text)) - 1))

\* A sequence of rows is in the order claimed: published descending, rows
\* without published last, equal published by descending id.
InClaimedOrder(rows) ==
    \A i, j \in 1..Len(rows) :
        i < j =>
            LET r == rows[i]
                q == rows[j]
            IN  /\ IsSome(q.published) => IsSome(r.published)
                /\ (IsSome(r.published) /\ IsSome(q.published))
                       => TimeOfText(Unwrap(r.published), 0) >= TimeOfText(Unwrap(q.published), 0)
                /\ r.published = q.published => r.id > q.id

\* C16. get_items_for_feed returns a feed's rows by published descending, rows
\* without published after all rows with one, equal published by descending
\* id; and a row keeps the id of its first insertion through later upserts.
C16_OrderedByPublished ==
    [][/\ \A f \in FeedIds :
            InClaimedOrder(get_items_for_feed(items', f, get_item_count_for_feed(items', f), 0))
       /\ \A r \in items : \E q \in items' :
            q.feed_id = r.feed_id /\ q.guid = r.guid /\ q.id = r.id]_vars

\* One feed lists two items of equal published time, the later inserted first;
\* another lists an item published at 10 before one published at 2 that was
\* inserted after it; and the latest upsert was onto a stored row without
\* published, which now has one.
C16_Witness ==
    /\ call.op = "upsert_item"
    /\ IsSome(call.before)
    /\ Unwrap(call.before).published = None
    /\ IsSome(call.args.published)
    /\ \E f, g \in FeedIds :
         LET a == get_items_for_feed(items, f, MaxLimit, 0)
             b == get_items_for_feed(items, g, MaxLimit, 0)
         IN  /\ Len(a) = 2 /\ a[1].published = a[2].published /\ a[1].id > a[2].id
             /\ Len(b) = 2
             /\ b[1].published = Some(to_rfc3339(10))
             /\ b[2].published = Some(to_rfc3339(2))
             /\ b[1].id < b[2].id

\* C14. Concurrent upsert_item calls for one (feed_id, guid) all return Ok and
\* leave one row for it, whose title, link, discussion_link and published are
\* all those of one call, the one whose statement ran last.
C14_ConcurrentUpsertsLastWins ==
    \A p, q \in Returned :
        (p # q /\ upserts[p].args.feed_id = upserts[q].args.feed_id
               /\ upserts[p].args.guid = upserts[q].args.guid
               /\ upserts[p].seq < upserts[q].seq
               /\ \A o \in Returned :
                    (upserts[o].args.feed_id = upserts[q].args.feed_id
                       /\ upserts[o].args.guid = upserts[q].args.guid)
                        => upserts[o].seq <= upserts[q].seq)
            => /\ upserts[p].ret = "Ok"
               /\ upserts[q].ret = "Ok"
               /\ \E r \in items :
                    /\ r = RowFor(r.id, upserts[q].args)
                    /\ \A x \in items :
                         (x.feed_id = r.feed_id /\ x.guid = r.guid) => x = r

\* Two calls for the same (feed_id, guid) with different titles and links were
\* both under way before either statement ran, on a table without the row;
\* both have returned.
C14_Witness ==
    \E p, q \in Returned :
        /\ p # q
        /\ upserts[p].args.feed_id = upserts[q].args.feed_id
        /\ upserts[p].args.guid = upserts[q].args.guid
        /\ upserts[p].args.title # upserts[q].args.title
        /\ upserts[p].args.link # upserts[q].args.link
        /\ ~upserts[p].seen /\ ~upserts[q].seen
        /\ upserts[p].raced
        /\ upserts[p].seq < upserts[q].seq
        /\ \E r \in items : r = RowFor(r.id, upserts[q].args)

\* ------------------------------------------------- properties of the feeds

\* The step is a call of update_feed_fetched: the latest call is one, and the
\* step made it (it changed the history or the feeds table; a call that
\* changes neither repeats the call before it at the same time).
UpdateFetchedStep ==
    /\ call'.op = "update_feed_fetched"
    /\ call.op # "update_feed_fetched" \/ call' # call \/ feeds' # feeds

\* C17. update_feed_fetched stamps last_fetched with the time of the call and
\* sets last_error to exactly the value given: with none given, an error
\* recorded before is cleared.
C17_UpdateStampsAndSetsError ==
    [][UpdateFetchedStep
          => \E r \in feeds' :
               /\ r.id = call'.args.feed_id
               /\ r.last_fetched = Some(to_rfc3339(now))
               /\ r.last_error = call'.args.error
               /\ \A q \in feeds' : q.id = r.id => q = r]_vars

\* A feed that had an error recorded at time 0 has been updated at a later
\* time with no error: its error is gone and its stamp is the later time.
C17_Witness ==
    /\ call.op = "update_feed_fetched"
    /\ IsSome(call.before.last_error)
    /\ call.args.error = None
    /\ now > 0
    /\ FeedRow(call.args.feed_id).last_error = None
    /\ FeedRow(call.args.feed_id).last_fetched = Some(to_rfc3339(now))

\* C18. update_feed_fetched changes the stored homepage URL only when given a
\* non-empty one; given none or an empty one it leaves the stored URL as it is.
C18_HomepageOnlyWhenNonEmpty ==
    [][UpdateFetchedStep
          => LET h == call'.args.homepage_url
                 old == CHOOSE r \in feeds : r.id = call'.args.feed_id
                 new == CHOOSE r \in feeds' : r.id = call'.args.feed_id
             IN  new.homepage_url = IF IsSome(h) /\ Unwrap(h) # <<>>
                                    THEN h
                                    ELSE old.homepage_url]_vars

\* The rows sync_feeds has to leave for the configs: for each URL listed, a
\* row with the name and flag of the last config that lists it.
LastConfigFor(configs, url) ==
    configs[CHOOSE k \in 1..Len(configs) :
                /\ configs[k].url = url
                /\ \A j \in (k + 1)..Len(configs) : configs[j].url # url]

\* C19. sync_feeds reconciles by URL: after it every listed URL has one row,
\* with the config's name and has_discussion; a row that was there keeps its
\* id and fetch status; a URL unseen gets a new row; applying the same list
\* again changes nothing; and no two feeds ever share a URL.
C19_SyncReconcilesByUrl ==
    [][/\ \A r, q \in feeds' : r.url = q.url => r = q
       /\ call'.op = "sync_feeds"
            => LET configs == call'.args
                   listed == {configs[k].url : k \in 1..Len(configs)}
               IN  /\ \A u \in listed :
                         \E r \in feeds' :
                            /\ r.url = u
                            /\ r.name = LastConfigFor(configs, u).name
                            /\ r.has_discussion = LastConfigFor(configs, u).has_discussion
                            /\ \A old \in feeds :
                                 old.url = u
                                    => r = [old EXCEPT !.name = r.name,
                                                       !.has_discussion = r.has_discussion]
                            /\ (\A old \in feeds : old.url # u)
                                    => /\ r.id \notin {old.id : old \in feeds}
                                       /\ r.last_fetched = None
                                       /\ r.last_error = None
                                       /\ r.homepage_url = None
                   /\ \A r \in feeds' : r.url \in listed \/ r \in feeds
                   /\ sync_feeds(feeds', configs) = feeds'
                   /\ call'.repeat => feeds' = feeds
                   /\ items' = items]_vars

\* The configured feeds have been synced twice in a row, over a feed that had
\* been renamed and fetched in between: it has its configured name again, its
\* id and its fetch status, and the second feed is there.
C19_Witness ==
    /\ call.op = "sync_feeds"
    /\ call.repeat
    /\ call.args = FeedConfigs
    /\ \E r, q \in feeds :
         /\ r.id = 1 /\ r.name = "Hacker News" /\ IsSome(r.last_fetched)
         /\ IsSome(r.homepage_url)
         /\ q.id = 2 /\ q.name = "Blog"

ItemKeys(itemRows) == {<<r.feed_id, r.guid>> : r \in itemRows}

\* C20. Nothing is ever deleted: through every sync_feeds, upsert_item and
\* update_feed_fetched call the feed ids and the (feed_id, guid) item keys
\* that are stored stay stored.
C20_NothingDeleted ==
    [][/\ {r.id : r \in feeds} \subseteq {r.id : r \in feeds'}
       /\ {r.url : r \in feeds} \subseteq {r.url : r \in feeds'}
       /\ ItemKeys(items) \subseteq ItemKeys(items')]_vars

\* The feeds have been synced with a list that no longer names the second
\* feed's URL: the feed is still there, and so is its item.
C20_Witness ==
    /\ call.op = "sync_feeds"
    /\ call.args = RenamedConfigs
    /\ \E r \in feeds :
         /\ r.url = <<"blog.example.com", "/feed">>
         /\ r.url \in call.before
         /\ ItemsOf(items, r.id) # {}

\* ----------------------------------------------- properties of the resolver

\* The resolver has returned.
Resolved == pure.fn = "extract_discussion_link" /\ pure.done

\* The feed is on a known discussion origin and the entry's identifier is a
\* URL under that origin's discussion path.
IdUnderOrigin(feed, entry) ==
    \/ Contains(feed.url, <<HN>>) /\ Contains(entry.id, HN_ITEM)
    \/ Contains(feed.url, <<LOBSTERS>>) /\ Contains(entry.id, LOBSTERS_STORY)

\* C21. For a feed whose has_discussion flag is false the resolver returns
\* none, whatever the URL, the identifier, the links and the comments URL are.
C21_NoneWithoutFlag ==
    (Resolved /\ ~pure.args.feed.has_discussion) => pure.ret = None

\* The resolver has returned for a Hacker News feed without the flag, on an
\* entry with an item identifier, an external link, a comments URL and
\* tagged links.
C21_Witness ==
    /\ Resolved
    /\ ~pure.args.feed.has_discussion
    /\ Contains(pure.args.feed.url, <<HN>>)
    /\ pure.args.entry.id = HnItem1
    /\ pure.args.main_link = ArticleA
    /\ pure.args.comments_from_xml = Some(CommentsA)
    /\ Len(pure.args.entry.links) = 4
    /\ pure.ret = None

\* C22. With the flag set, on a known origin, an identifier under the origin's
\* discussion path and a primary link that is not that identifier, the
\* resolver returns the identifier, whatever comments URL and tagged links
\* there are.
C22_IdentifierOnKnownOrigin ==
    (/\ Resolved
     /\ pure.args.feed.has_discussion
     /\ IdUnderOrigin(pure.args.feed, pure.args.entry)
     /\ pure.args.main_link # pure.args.entry.id)
        => pure.ret = Some(pure.args.entry.id)

\* C23. With the flag set, on a known origin, when the primary link is the
\* entry's own discussion URL (its identifier), the resolver returns none,
\* on Hacker News and on Lobste.rs.
C23_NoneForSelfPost ==
    (/\ Resolved
     /\ pure.args.feed.has_discussion
     /\ IdUnderOrigin(pure.args.feed, pure.args.entry)
     /\ pure.args.main_link = pure.args.entry.id)
        => pure.ret = None

\* C24. The resolver never returns the primary link it was given: its result
\* is none or a URL different from main_link.
C24_DiscussionDiffersFromLink ==
    Resolved => (pure.ret = None \/ Unwrap(pure.ret) # pure.args.main_link)

\* A rule of a known platform applies: the feed is on Hacker News and the
\* primary link or the identifier is an item URL there, or the feed is on
\* Lobste.rs and the identifier is a story URL there.
IdentityRuleApplies(feed, entry, main_link) ==
    \/ Contains(feed.url, <<HN>>) /\ Contains(main_link, HN_ITEM)
    \/ IdUnderOrigin(feed, entry)

\* The href of the first of the links whose relation tag is "replies" or
\* "comments" in any letter case, as an Option.
FirstTagged(links) ==
    LET tagged == {k \in 1..Len(links) :
                      /\ IsSome(links[k].rel)
                      /\ Unwrap(links[k].rel) \in {"replies", "Replies", "REPLIES",
                                                   "comments", "Comments", "COMMENTS"}}
    IN  IF tagged = {}
        THEN None
        ELSE Some(links[CHOOSE k \in tagged : \A j \in tagged : k <= j].href)

Extracted == pure.fn = "extract_comments_from_xml" /\ pure.done /\ pure.args.xml_bytes.utf8

\* The positions of the blocks that have both a <link> and a <comments>.
Qualifying(blocks) ==
    {k \in 1..Len(blocks) : IsSome(blocks[k].link) /\ IsSome(blocks[k].comments)}

\* C26 as stated. The mapping has a pair, the block's first link to the block's
\* first comments, both trimmed, for exactly the blocks that have both.
C26_PairPerQualifyingBlock ==
    Extracted =>
        LET blocks == pure.args.blocks
            q == Qualifying(blocks)
        IN  /\ DOMAIN pure.ret = {Unwrap(blocks[k].link) : k \in q}
            /\ \A k \in q : pure.ret[Unwrap(blocks[k].link)] = Unwrap(blocks[k].comments)

\* C26. The keys of the mapping are the first links, trimmed, of exactly the
\* blocks that have both a <link> and a <comments>, and each key is mapped to
\* the first comments, trimmed, of the last such block with that link.
C26_PairPerQualifyingLink ==
    Extracted =>
        LET blocks == pure.args.blocks
            q == Qualifying(blocks)
        IN  /\ DOMAIN pure.ret = {Unwrap(blocks[k].link) : k \in q}
            /\ \A k \in q :
                  (\A j \in q : j > k => blocks[j].link # blocks[k].link)
                      => pure.ret[Unwrap(blocks[k].link)] = Unwrap(blocks[k].comments)

\* The extractor has returned on a document of three blocks: one with both
\* elements, one without <comments>, and one with the first block's link and
\* other comments.
C26_Witness ==
    /\ Extracted
    /\ Len(pure.args.blocks) = 3
    /\ Qualifying(pure.args.blocks) = {1, 3}
    /\ pure.args.blocks[1].link = pure.args.blocks[3].link
    /\ pure.args.blocks[1].comments # pure.args.blocks[3].comments
    /\ DOMAIN pure.ret = {<<"blog.example.com", "/a">>}
    /\ pure.ret[<<"blog.example.com", "/a">>] = <<"blog.example.com", "/f#c">>

\* The block has no </item>.
Unclosed(block) == ~Contains(block.text, <<"</item>">>)

\* The block has a <comments> after its </item>.
CommentsAfterClose(block) ==
    LET e == Find(block.text, <<"</item>">>)
    IN  e # 0 /\ Contains(SubSeq(block.text, e, Len(block.text)), <<"<comments>">>)

\* C28. A block without </item> is read to its end: when it has both elements
\* and no later block has its link, its pair is in the mapping. A <comments>
\* after a block's </item> is not attributed to the block: a block that has
\* none before its </item> contributes no pair.
C28_BlockEndsAtItsClose ==
    Extracted =>
        LET blocks == pure.args.blocks
        IN  \A k \in 1..Len(blocks) :
                /\ (/\ Unclosed(blocks[k])
                    /\ k \in Qualifying(blocks)
                    /\ \A j \in Qualifying(blocks) : j > k => blocks[j].link # blocks[k].link)
                       => MapGet(pure.ret, Unwrap(blocks[k].link)) = blocks[k].comments
                /\ (/\ CommentsAfterClose(blocks[k])
                    /\ blocks[k].comments = None
                    /\ IsSome(blocks[k].link)
                    /\ \A j \in Qualifying(blocks) : blocks[j].link # blocks[k].link)
                       => Unwrap(blocks[k].link) \notin DOMAIN pure.ret

\* The extractor has returned on a document cut short, with a block that has
\* a <comments> after its </item> followed by a block without </item>.
C28_Witness ==
    /\ Extracted
    /\ Len(pure.args.blocks) = 2
    /\ CommentsAfterClose(pure.args.blocks[1])
    /\ Unclosed(pure.args.blocks[2])
    /\ ~Contains(pure.args.xml_bytes.text, <<"</rss>">>)
    /\ DOMAIN pure.ret = {<<"blog.example.com", "/e">>}

\* C27. When the bytes of a response are not UTF-8 the extractor's mapping is
\* empty and the feed's step goes on to the parser: it reaches the entry loop
\* exactly with the parser's entries and an empty mapping, no item gets a
\* discussion link from a <comments> element, and a feed's step fails only
\* with a fetch, parse or storage error.
C27_NonUtf8GivesEmptyMap ==
    /\ \A c \in Callers :
          pc[c] = "ingesting" =>
              /\ local[c].comments_map = EmptyMap
              /\ local[c].entries = BodyLatin1.parsed.entries
    /\ \A r \in items : r.discussion_link = None
    /\ \A f \in FeedIds : audit.outcome[f] \in {"none", "Ok", "FetchError", "ParseError",
                                                "StorageError"}
    /\ extract_comments_from_xml(BodyLatin1.bytes) = EmptyMap
    /\ extract_comments_from_xml(BodyBinary.bytes) = EmptyMap

\* A cycle has fetched a non-UTF-8 document for the blog feed, parsed it and
\* stored its entry, whose <comments> element was not read.
C27_Witness ==
    /\ \E r \in items :
          /\ r.link = ArticleA
          /\ r.discussion_link = None
          /\ \E f \in feeds : f.id = r.feed_id /\ f.has_discussion
                                 /\ f.url = <<"blog.example.com", "/feed">>
    /\ \E f \in FeedIds : audit.outcome[f] = "Ok"

\* ------------------------------------------------ properties of the scheduler

\* C29. The background task calls refresh_all_feeds at once and then again
\* and again, forever: at every moment another call of it lies ahead, whatever
\* the cycles before returned.
C29_ScheduledForever == []<>(pc[Scheduler] = "acquire")

\* How many requests the running cycle has sent for the feed.
FetchCount(feed_id) ==
    Cardinality({k \in 1..Len(audit.fetched) : audit.fetched[k] = feed_id})

\* C30. Within one cycle no feed is requested twice, whether its request
\* failed or not, and when the cycle has gone through its feeds every feed of
\* the store has been requested exactly once.
C30_EachFeedFetchedOnce ==
    /\ \A f \in FeedIds : FetchCount(f) <= 1
    /\ \A c \in Callers : CycleComplete(c) => \A f \in FeedIds : FetchCount(f) = 1

\* A cycle is complete in which the requests of both feeds failed.
C30_Witness ==
    \E c \in Callers :
        /\ CycleComplete(c)
        /\ audit.outcome[1] = "FetchError"
        /\ audit.outcome[2] = "FetchError"
        /\ audit.fetched = <<1, 2>>

\* C31. When every request and every store call of a cycle ends, a cycle that
\* has acquired the flag finishes and the flag is cleared: whenever
\* is_refreshing answers true it answers false some time later, so a caller
\* that was absorbed and polls it sees the cycle complete.
C31_CycleTerminates == refreshing ~> (~refreshing /\ \A c \in Callers : pc[c] \notin InCycle)

\* A cycle that stored an item and recorded a feed's error has returned, and
\* the flag is clear with every task outside refresh_all_feeds.
C31_Witness ==
    /\ ~refreshing
    /\ lastRet \in {"Ok", "Err"}
    /\ \A c \in Callers : pc[c] = "idle"
    /\ items # {}
    /\ \E f \in feeds : IsSome(f.last_error)

\* ------------------------------------------------- properties of ingestion

\* The entries of the document, as a set.
MixedEntries ==
    {BodyMixedEntries.parsed.entries[k] : k \in 1..Len(BodyMixedEntries.parsed.entries)}

\* The entry has a link: a first link with a non-empty href.
HasLink(entry) == entry.links # <<>> /\ entry.links[1].href # <<>>

\* C32. Of a parsed feed, an entry without link is never stored; the entries
\* after it are processed, and the feed's refresh succeeds and is recorded as
\* a success; a stored item has the entry's title or "Untitled", and as
\* published the entry's published time, else its updated time, else none.
C32_IngestRules ==
    /\ \A r \in items :
          \E e \in MixedEntries :
              /\ e.id = r.guid
              /\ HasLink(e)
              /\ r.link = e.links[1].href
              /\ r.title = (IF IsSome(e.title) THEN Unwrap(e.title) ELSE "Untitled")
              /\ r.published = (IF IsSome(e.published) THEN Some(to_rfc3339(Unwrap(e.published)))
                                ELSE IF IsSome(e.updated) THEN Some(to_rfc3339(Unwrap(e.updated)))
                                ELSE None)
    /\ \A f \in FeedIds :
          audit.outcome[f] = "Ok" =>
              /\ {r.guid : r \in ItemsOf(items, f)} = {e.id : e \in {x \in MixedEntries : HasLink(x)}}
              /\ audit.recorded[f] => FeedRow(f).last_error = None

\* A cycle is complete in which the first feed's document was ingested: the
\* entry without title is stored as "Untitled" without published, the entry
\* with updated only is stored with that time, and the feed has no error.
C32_Witness ==
    \E c \in Callers :
        /\ CycleComplete(c)
        /\ audit.outcome[1] = "Ok"
        /\ audit.recorded[1]
        /\ FeedRow(1).last_error = None
        /\ \E r \in ItemsOf(items, 1) :
              r.guid = <<"guid-a">> /\ r.title = "Untitled" /\ r.published = None
        /\ \E r \in ItemsOf(items, 1) :
              r.guid = <<"guid-b">> /\ r.published = Some(to_rfc3339(0))
        /\ Cardinality(ItemsOf(items, 1)) = 3

\* ------------------------------------------ properties of concurrent reads

\* C33. A get_items_for_feed call that is under way can return at any moment
\* of a running cycle, and what it returns is the page of the items table as
\* it is between two upserts: every row of the page is a whole row of that
\* table, never a mix of an item's old and new values, and no two rows of the
\* page have the same (feed_id, guid). The read changes nothing.
C33_ReadSeesOneState ==
    /\ [](\A p \in Clients : upserts[p].state = "called" => ENABLED ReadExec(p))
    /\ [][\A p \in Clients :
            (upserts[p].state = "called" /\ upserts'[p].state = "returned")
                => LET a == upserts[p].args
                       page == upserts'[p].ret
                   IN  /\ page = get_items_for_feed(items, a.feed_id, a.limit, a.offset)
                       /\ \A k \in 1..Len(page) : page[k] \in items
                       /\ \A j, k \in 1..Len(page) :
                             (page[j].feed_id = page[k].feed_id /\ page[j].guid = page[k].guid)
                                 => j = k
                       /\ items' = items /\ feeds' = feeds /\ pc' = pc
                       /\ refreshing' = refreshing]_vars

\* A read was called when the item had its old title and link, and returned
\* during a cycle that had rewritten it: the page holds the new row.
C33_Witness ==
    \E p \in Clients :
        /\ upserts[p].state = "returned"
        /\ upserts[p].raced
        /\ \E o \in upserts[p].seen :
              /\ o.feed_id = upserts[p].args.feed_id
              /\ o.title = "Title A" /\ o.link = ArticleA
        /\ Len(upserts[p].ret) = 1
        /\ upserts[p].ret[1].title = "Title B"
        /\ upserts[p].ret[1].link = ArticleB

\* ------------------------------------------------- properties of the flag

\* C34. The flag is set exactly while one refresh_all_feeds call is between
\* its acquisition and its release: set at every point of a running cycle,
\* however many calls are absorbed meanwhile, and clear when no cycle runs.
C34_FlagIffCycleRunning ==
    refreshing <=> (Cardinality({c \in Callers : pc[c] \in InCycle}) = 1)

\* Fetcher::is_refreshing, as routes::refresh_status would report it now.
is_refreshing == refreshing

\* C35. From the moment the refresh route has answered, with the task it
\* spawned not yet inside its cycle or inside it, a status query reports
\* refreshing = true.
C35_StatusTrueOnceTriggered ==
    \A c \in Callers \ {Scheduler} :
        pc[c] \in ({"acquire"} \cup InCycle) => is_refreshing

C37_CountIsDistinctGuids ==
    \A f \in FeedIds :
        LET n == Cardinality({k \in upserts : k[1] = f})
        IN  /\ get_item_count_for_feed(items, f) = n
            /\ \A L \in n..(n + MaxLimit) : Len(get_items_for_feed(items, f, L, 0)) = n

\* One feed has had two guids upserted and the other one, and the latest
\* call was an upsert of a guid already stored.
C37_Witness ==
    /\ get_item_count_for_feed(items, 1) = 2
    /\ get_item_count_for_feed(items, 2) = 1
    /\ call.op = "upsert_item"
    /\ IsSome(call.before)
    /\ call.args.title # Unwrap(call.before).title

\* The rows of the pages, one page after the other.
RECURSIVE Flatten(_)
Flatten(pages) == IF pages = <<>> THEN <<>> ELSE Head(pages) \o Flatten(Tail(pages))

\* C38. On an unmodified store the pages of a feed at the offsets 0, L, 2L,
\* ... for L > 0 are pairwise disjoint, and one after the other they are the
\* feed's complete list in order: every item of the feed exactly once, by
\* published descending, without published last, equal published by
\* descending id.
C38_PagesPartitionTheList ==
    (pure.fn = "get_items_for_feed" /\ pure.done) =>
        LET pages == pure.ret
            all == Flatten(pages)
            mine == ItemsOf(items, pure.args.feed_id)
        IN  /\ \A i, j \in 1..Len(pages) :
                  i # j => {pages[i][k] : k \in 1..Len(pages[i])}
                              \cap {pages[j][k] : k \in 1..Len(pages[j])} = {}
            /\ {all[k] : k \in 1..Len(all)} = mine
            /\ Len(all) = Cardinality(mine)
            /\ InClaimedOrder(all)
            /\ \A i \in 1..Len(pages) : Len(pages[i]) <= pure.args.limit

\* A feed of three items, two of them with the same published time, has been
\* read in pages of two: a full page and a page of one.
C38_Witness ==
    /\ pure.fn = "get_items_for_feed"
    /\ pure.done
    /\ pure.args.limit = 2
    /\ Len(pure.ret) = 2
    /\ Len(pure.ret[1]) = 2
    /\ Len(pure.ret[2]) = 1
    /\ \E r, q \in ItemsOf(items, pure.args.feed_id) : r # q /\ r.published = q.published

\* C39. On an unmodified store has_more is true exactly when the next page
\* has an item: for index the page at offset 15; for feed_more with an
\* offset >= 0 the page at the next offset it returns, offset + 15.
C39_HasMoreIffNextPage ==
    /\ (pure.fn = "index" /\ pure.done)
          => (pure.ret.has_more
                <=> get_items_for_feed(items, pure.args.feed_id, ITEMS_PER_PAGE,
                                       ITEMS_PER_PAGE) # <<>>)
    /\ (pure.fn = "feed_more" /\ pure.done /\ pure.args.offset >= 0)
          => /\ ~pure.ret.panicked
             /\ pure.ret.offset = pure.args.offset + ITEMS_PER_PAGE
             /\ pure.ret.has_more
                  <=> get_items_for_feed(items, pure.args.feed_id, ITEMS_PER_PAGE,
                                         pure.ret.offset) # <<>>

\* ------------------------------------------------- properties of the frame

\* C40. sync_feeds changes, of a feed whose URL it names, the name and
\* has_discussion only: id, url, last_fetched, last_error and homepage_url
\* stay, a feed it does not name stays as it is, and no item changes. The
\* writes of a refresh cycle, update_feed_fetched and upsert_item, change no
\* feed's name, url or has_discussion, and add and remove no feed.
C40_FrameOfSyncAndCycle ==
    [][/\ call'.op = "sync_feeds"
            => LET configs == call'.args
                   listed == {configs[k].url : k \in 1..Len(configs)}
               IN  /\ items' = items
                   /\ \A old \in feeds :
                         \E r \in feeds' :
                            /\ r.id = old.id
                            /\ r.url = old.url
                            /\ r.last_fetched = old.last_fetched
                            /\ r.last_error = old.last_error
                            /\ r.homepage_url = old.homepage_url
                            /\ old.url \notin listed => r = old
       /\ call'.op \in {"update_feed_fetched", "upsert_item"}
            => /\ {r.id : r \in feeds'} = {r.id : r \in feeds}
               /\ \A old \in feeds :
                     \E r \in feeds' :
                        /\ r.id = old.id
                        /\ r.name = old.name
                        /\ r.url = old.url
                        /\ r.has_discussion = old.has_discussion]_vars

\* The first feed, fetched with an error and a homepage, holding an item, has
\* been renamed by a sync that does not name the second feed: it has its
\* status and its item still.
C40_Witness ==
    /\ call.op = "sync_feeds"
    /\ call.args = RenamedConfigs
    /\ \E r, q \in feeds :
         /\ r.id = 1 /\ r.name = "HN (renamed)" /\ ~r.has_discussion
         /\ IsSome(r.last_fetched) /\ IsSome(r.last_error) /\ IsSome(r.homepage_url)
         /\ ItemsOf(items, 1) # {}
         /\ q.id = 2 /\ q.name = "Blog"

=============================================================================
